---- MODULE Spec2Model ----
(***************************************************************************)
(* A model of selenium_js2py: JavaScriptObject (attribute resolution and   *)
(* caching over a remote executor), the deferred-failure responses         *)
(* JavaScriptResponse / JQueryResponse, and the jquery wrapper S.          *)
(*                                                                         *)
(* Python values are records with a "tag" field.  A Python str is a        *)
(* sequence of tokens (its substrings in order), so that the scripts the   *)
(* code builds by interpolation are built here by concatenation.           *)
(***************************************************************************)
EXTENDS Integers, Sequences, FiniteSets, TLC

VARIABLES remote, self, _attrs, calls, last, resp, rlast, nexc, js

vars == <<remote, self, _attrs, calls, last, resp, rlast, nexc, js>>
objvars == <<remote, self, _attrs, calls, last, js>>
respvars == <<resp, rlast, nexc, js>>

(***************************************************************************)
(* Bounds of the model.                                                    *)
(***************************************************************************)
\* the largest remote function arity (f.length) the model draws
MaxArity == 2
\* the number of exception objects a behaviour may create
MaxExc == 3

(***************************************************************************)
(* Python values.                                                          *)
(***************************************************************************)
None == [tag |-> "None"]
str(toks) == [tag |-> "str", toks |-> toks]
Object(id) == [tag |-> "object", id |-> id]
Tuple(items) == [tag |-> "tuple", items |-> items]
PyList(items) == [tag |-> "list", items |-> items]
PyInt(n) == [tag |-> "int", n |-> n]
\* a zero-argument callable passed as a lazy executor argument
Callable(v) == [tag |-> "callable", value |-> v]

Range(s) == {s[i] : i \in DOMAIN s}

\* a local variable: v is computed once and named in the rest F of the body
Bind(v, F(_)) == F(v)

\* dict.get(key, default) on a dict modelled as a function
dictget(d, k, default) == IF k \in DOMAIN d THEN d[k] ELSE default

(***************************************************************************)
(* _algae.py                                                               *)
(***************************************************************************)
IsSpace(t) == t = " "

RECURSIVE lstrip(_)
lstrip(toks) ==
    IF toks # <<>> /\ IsSpace(Head(toks)) THEN lstrip(Tail(toks)) ELSE toks

RECURSIVE rstrip(_)
rstrip(toks) ==
    IF toks # <<>> /\ IsSpace(toks[Len(toks)])
    THEN rstrip(SubSeq(toks, 1, Len(toks) - 1))
    ELSE toks

strip(toks) == rstrip(lstrip(toks))

\* string.strip() if string and string.strip() else ""
noneoremptystr(string) ==
    IF string.tag = "str" THEN str(strip(string.toks)) ELSE str(<<>>)

startswith(string, pattern) ==
    /\ Len(pattern.toks) <= Len(string.toks)
    /\ SubSeq(string.toks, 1, Len(pattern.toks)) = pattern.toks

endswith(string, pattern) ==
    /\ Len(pattern.toks) <= Len(string.toks)
    /\ SubSeq(string.toks, Len(string.toks) - Len(pattern.toks) + 1,
              Len(string.toks)) = pattern.toks

\* string.startswith(pattern) and string.endswith(pattern)
enclosedby(string, pattern) ==
    startswith(string, pattern) /\ endswith(string, pattern)

\* the text arguments[k]
ArgumentsTok(k) ==
    <<"arguments[0]", "arguments[1]", "arguments[2]", "arguments[3]",
      "arguments[4]", "arguments[5]", "arguments[6]", "arguments[7]">>[k + 1]

ArgumentsToks == {ArgumentsTok(k) : k \in 0..7}

\* re.findall(r"arguments\[\d+]", string): the matches, in order
findargs(toks) == SelectSeq(toks, LAMBDA t : t \in ArgumentsToks)

(***************************************************************************)
(* str methods used by the code, on the tokens the model draws.            *)
(***************************************************************************)
IdentifierToks == {"f", "g", "p", "u", "win", "lit", "Date", "_r"}
DecimalToks == {"0", "7"}

isidentifier(s) == Len(s.toks) = 1 /\ s.toks[1] \in IdentifierToks
isdecimal(s) == Len(s.toks) = 1 /\ s.toks[1] \in DecimalToks
truthy(s) == IF s.tag = "str" THEN s.toks # <<>> ELSE s.tag # "None"

(***************************************************************************)
(* javascript.py: module-level helpers                                     *)
(***************************************************************************)
\* a variant of _configureglobalopts whose cacheattrs is True unless given
_configureglobalopts_CachesByDefault(invopts) ==
    [cacheattrs |-> dictget(invopts, "cacheattrs", TRUE),
     cacheprops |-> dictget(invopts, "cacheprops", TRUE),
     cachefuncs |-> dictget(invopts, "cachefuncs", TRUE),
     overwrite  |-> dictget(invopts, "overwrite", TRUE),
     strobj     |-> dictget(invopts, "strobj", FALSE)]

_configureglobalopts(invopts) ==
    [cacheattrs |-> dictget(invopts, "cacheattrs", FALSE),
     cacheprops |-> dictget(invopts, "cacheprops", TRUE),
     cachefuncs |-> dictget(invopts, "cachefuncs", TRUE),
     overwrite  |-> dictget(invopts, "overwrite", TRUE),
     strobj     |-> dictget(invopts, "strobj", FALSE)]

\* tuple(arg() if callable(arg) else arg for arg in execargs)
_resolveargs(execargs) ==
    [i \in DOMAIN execargs |->
        IF execargs[i].tag = "callable" THEN execargs[i].value ELSE execargs[i]]

(***************************************************************************)
(* Exceptions.  An exception object is its type and an identity.           *)
(***************************************************************************)
Exc(type, id) == [tag |-> "exception", type |-> type, id |-> id]
InvalidJavaScriptAttribute == Exc("InvalidJavaScriptAttribute", 0)
TypeError == Exc("TypeError", 0)
\* what the executor raises when a script fails remotely
WebDriverException == Exc("WebDriverException", 0)

(***************************************************************************)
(* The executor: execute_script(script, *args).  A request is the script   *)
(* and the positional arguments; arguments[k] in the script denotes        *)
(* args[k + 1].  The remote side is the environment: rmt gives the typeof  *)
(* and the length (arity) of the attributes of the wrapped object.         *)
(***************************************************************************)
Request(script, args) == [script |-> script, args |-> args]

\* the value the remote side computes for a request other than typeof / length
JsResult(req) == [tag |-> "jsresult", script |-> req.script, args |-> req.args]

\* typeof of the attribute `name` of the wrapped object, and with no name
\* typeof of the wrapped object itself
RemoteType(rmt, name) ==
    IF name = None THEN "object"
    ELSE IF name.tag = "str" /\ Len(name.toks) = 1
            /\ name.toks[1] \in DOMAIN rmt
    THEN rmt[name.toks[1]].type
    ELSE "undefined"

RemoteArity(rmt, name) == rmt[name.toks[1]].arity

(***************************************************************************)
(* JavaScriptObject                                                        *)
(***************************************************************************)
\* __init__: the instance after construction (its _attrs is the empty dict)
JavaScriptObject(obj, execargs, invopts) ==
    Bind([_obj |-> obj, _execargs |-> execargs]
           @@ _configureglobalopts(invopts), LAMBDA base :
        IF obj.tag = "str" /\ ~base.strobj
        THEN IF enclosedby(obj, str(<<"\"">>)) \/ enclosedby(obj, str(<<"'">>))
             THEN [base EXCEPT
                      !._obj = str(SubSeq(obj.toks, 2, Len(obj.toks) - 1)),
                      !.strobj = TRUE]
             ELSE Bind(noneoremptystr(obj), LAMBDA stripped :
                      IF truthy(stripped)
                      THEN [base EXCEPT !._obj = stripped]
                      ELSE [base EXCEPT !._obj = None, !.strobj = TRUE])
        ELSE base)

\* _define.stringify
stringify(name, oname, pobj) ==
    IF ~truthy(name)
    THEN [jsdef |-> oname, passobj |-> pobj, exc |-> None]
    ELSE IF isdecimal(name) \/ ~isidentifier(name)
    THEN [jsdef |-> oname \o <<"[\"">> \o name.toks \o <<"\"]">>,
          passobj |-> pobj, exc |-> None]
    ELSE IF Head(name.toks) = "["
    THEN [jsdef |-> oname \o name.toks, passobj |-> pobj, exc |-> None]
    ELSE [jsdef |-> oname \o <<".">> \o name.toks, passobj |-> pobj, exc |-> None]

\* _define(name): the script text that denotes the attribute, and whether the
\* wrapped object is passed as the first executor argument
_define(slf, name0) ==
    Bind(noneoremptystr(name0), LAMBDA name :
        IF slf._obj.tag # "str" \/ slf.strobj
        THEN IF slf._obj = None
             THEN IF ~truthy(name)
                  THEN [jsdef |-> <<>>, passobj |-> FALSE,
                        exc |-> InvalidJavaScriptAttribute]
                  ELSE IF isdecimal(name)
                  THEN [jsdef |-> <<>>, passobj |-> FALSE,
                        exc |-> InvalidJavaScriptAttribute]
                  ELSE [jsdef |-> name.toks, passobj |-> FALSE, exc |-> None]
             ELSE stringify(name, <<"arguments[0]">>, TRUE)
        ELSE stringify(name, slf._obj.toks, FALSE))

\* a variant of _exec that passes the wrapped object whatever passobj says
_exec_PassesObject(slf, stmt, passobj, args) ==
    Request(<<"return ">> \o stmt,
            <<slf._obj, Tuple(_resolveargs(slf._execargs))>> \o args)

\* _exec(stmt, passobj, *args): the request it sends
_exec(slf, stmt, passobj, args) ==
    Bind(<<Tuple(_resolveargs(slf._execargs))>> \o args, LAMBDA args1 :
        IF passobj
        THEN Request(<<"return ">> \o stmt, <<slf._obj>> \o args1)
        ELSE Request(<<"return ">> \o stmt, args1))

\* a variant of _getopt written `opts.get(lcl) or gopt`: an explicit False
\* does not decide
_getopt_Or(slf, lcl, glbl, opts) ==
    (lcl \in DOMAIN opts /\ opts[lcl]) \/ slf[glbl]

\* _getopt(lcl, glbl, **opts)
_getopt(slf, lcl, glbl, opts) ==
    IF lcl \in DOMAIN opts THEN opts[lcl] ELSE slf[glbl]

(***************************************************************************)
(* Handles: the callables wrapfunction and wrapproperty return.  A handle  *)
(* is the closure's content: the script it sends and the arguments it      *)
(* sends before the caller's own.                                          *)
(***************************************************************************)
Handle(kind, script, args, arity) ==
    [tag |-> "handle", kind |-> kind, script |-> script, args |-> args,
     arity |-> arity]

\* the outcome of a step of an operation: the requests sent, the exception
\* raised (None: none) and the value returned
Outcome(reqs, exc, ret) == [calls |-> reqs, exc |-> exc, ret |-> ret]

\* a variant of Execute that sends the request again after sending it
Execute_Twice(req, fail, ret) ==
    IF fail = 1
    THEN Outcome(<<req>>, WebDriverException, None)
    ELSE Outcome(<<req, req>>, None, ret)

\* a variant of Execute that sends the request again when the executor
\* raises, and goes on with the answer
Execute_Retries(req, fail, ret) ==
    Outcome(IF fail = 1 THEN <<req, req>> ELSE <<req>>, None, ret)

\* jsexec.execute_script(...) as the fail-th request from here raises
\* (fail = 1: this one)
Execute(req, fail, ret) ==
    IF fail = 1
    THEN Outcome(<<req>>, WebDriverException, None)
    ELSE Outcome(<<req>>, None, ret)

\* calling a handle with the caller's arguments: the lambda of a function
\* proxy takes exactly arity arguments, the one of a getter takes *args; it
\* sends one request
CallHandle(h, args, fail) ==
    IF h.kind = "function" /\ Len(args) # h.arity
    THEN Outcome(<<>>, TypeError, None)
    ELSE Bind(Request(h.script, h.args \o args), LAMBDA req :
             Execute(req, fail, JsResult(req)))

\* ", ".join(arguments)
RECURSIVE join(_, _)
join(toks, sep) ==
    IF Len(toks) <= 1 THEN toks
    ELSE <<Head(toks), sep>> \o join(Tail(toks), sep)

\* the function proxy wrapfunction builds once the type and arity are known
FunctionProxy(slf, jsdef, passobj, execargs, arity) ==
    Bind(<<Tuple(_resolveargs(slf._execargs))>> \o execargs, LAMBDA args :
    Bind(IF passobj THEN <<slf._obj>> \o args ELSE args, LAMBDA pre :
        IF arity = 0
        THEN Handle("function", <<"return ">> \o jsdef \o <<"()">>, pre, 0)
        ELSE LET argind    == Len(findargs(jsdef))
                 arguments == [i \in 1..arity |-> ArgumentsTok((i - 1) + argind)]
                 argsstr   == join(arguments, ", ")
             IN  Handle("function",
                        <<"return ">> \o jsdef \o <<"(">> \o argsstr \o <<")">>,
                        pre, arity)))

\* wrapfunction(name, *execargs): None unless the remote type is function
wrapfunction(rmt, slf, name, execargs0, fail) ==
    Bind(_resolveargs(execargs0), LAMBDA execargs :
    Bind(_define(slf, name), LAMBDA d :
        IF d.exc # None THEN Outcome(<<>>, d.exc, None)
        ELSE
    Bind(Execute(_exec(slf, <<"typeof(">> \o d.jsdef \o <<")">>,
                       d.passobj, execargs),
                 fail, RemoteType(rmt, name)), LAMBDA q1 :
        IF q1.exc # None THEN q1
        ELSE IF q1.ret # "function" THEN Outcome(q1.calls, None, None)
        ELSE
    Bind(Execute(_exec(slf, d.jsdef \o <<".length">>, d.passobj, execargs),
                 fail - 1, RemoteArity(rmt, name)), LAMBDA q2 :
        IF q2.exc # None
        THEN Outcome(q1.calls \o q2.calls, q2.exc, None)
        ELSE Outcome(q1.calls \o q2.calls, None,
                     FunctionProxy(slf, d.jsdef, d.passobj,
                                   execargs, q2.ret))))))

\* the getter wrapproperty builds
PropertyGetter(slf, jsdef, passobj, execargs) ==
    Bind(<<Tuple(_resolveargs(slf._execargs))>> \o execargs, LAMBDA args :
        Handle("property", <<"return ">> \o jsdef,
               IF passobj THEN <<slf._obj>> \o args ELSE args, 0))

\* wrapproperty(name, *execargs, as_function=True): None when the remote type
\* is function or undefined
wrapproperty(rmt, slf, name, execargs0, fail) ==
    Bind(_resolveargs(execargs0), LAMBDA execargs :
    Bind(_define(slf, name), LAMBDA d :
        IF d.exc # None THEN Outcome(<<>>, d.exc, None)
        ELSE
    Bind(Execute(_exec(slf, <<"typeof(">> \o d.jsdef \o <<")">>,
                       d.passobj, execargs),
                 fail, RemoteType(rmt, name)), LAMBDA q1 :
        IF q1.exc # None THEN q1
        ELSE IF q1.ret \notin {"function", "undefined"}
        THEN Outcome(q1.calls, None,
                     PropertyGetter(slf, d.jsdef, d.passobj, execargs))
        ELSE Outcome(q1.calls, None, None))))

(***************************************************************************)
(* JavaScriptObject.invoke                                                 *)
(***************************************************************************)
\* the result of an operation on the object: an Outcome and the cache after
Result(out, attrs) ==
    [calls |-> out.calls, exc |-> out.exc, ret |-> out.ret, attrs |-> attrs]

\* a variant of NoFunction that treats the missing function as absent
NoFunction_ReturnsNone(reqs) == Outcome(reqs, None, None)

\* invoke: attrargs given and no function of that name
NoFunction(reqs) == Outcome(reqs, InvalidJavaScriptAttribute, None)

\* a variant of Absent that reports the absent attribute as invalid
Absent_Raises(reqs) == Outcome(reqs, InvalidJavaScriptAttribute, None)

\* invoke: neither a function nor a defined property
Absent(reqs) == Outcome(reqs, None, None)

\* invoke: which handle the caching options select for the cache
SelectAttr(slf, f, prop, invopts) ==
    IF truthy(f) /\ _getopt(slf, "iffunc", "cachefuncs", invopts)
    THEN f
    ELSE IF _getopt(slf, "ifprop", "cacheprops", invopts)
    THEN prop
    ELSE None

\* invoke: `if attr and name not in self._attrs or overwrite`
StoreCond(attr, name, attrs, overwrite) ==
    (truthy(attr) /\ name \notin DOMAIN attrs) \/ overwrite

\* a variant of CacheAttr that drops the name's entry where the code stores
\* None
CacheAttr_Evicts(slf, attrs, name, f, prop, invopts) ==
    IF _getopt(slf, "cacheattr", "cacheattrs", invopts)
    THEN Bind(SelectAttr(slf, f, prop, invopts), LAMBDA attr :
         Bind(_getopt(slf, "overwrite", "overwrite", invopts),
              LAMBDA overwrite :
             IF StoreCond(attr, name, attrs, overwrite)
             THEN IF attr = None
                  THEN [n \in DOMAIN attrs \ {name} |-> attrs[n]]
                  ELSE (name :> attr) @@ attrs
             ELSE attrs))
    ELSE attrs

\* invoke: the caching block that follows a resolution
CacheAttr(slf, attrs, name, f, prop, invopts) ==
    IF _getopt(slf, "cacheattr", "cacheattrs", invopts)
    THEN Bind(SelectAttr(slf, f, prop, invopts), LAMBDA attr :
         Bind(_getopt(slf, "overwrite", "overwrite", invopts),
              LAMBDA overwrite :
             IF StoreCond(attr, name, attrs, overwrite)
             THEN (name :> attr) @@ attrs
             ELSE attrs))
    ELSE attrs

\* f(*attrargs) for a tuple, f(attrargs) otherwise
CallArgs(attrargs) ==
    IF attrargs.tag = "tuple" THEN attrargs.items ELSE <<attrargs>>

invoke(rmt, slf, attrs, name, execargs, attrargs, invopts, fail) ==
    Bind(wrapfunction(rmt, slf, name, execargs, fail), LAMBDA wf :
    Bind(wf.ret, LAMBDA f :
        IF wf.exc # None THEN Result(wf, attrs)
        ELSE IF truthy(f)
        THEN IF attrargs = None
             THEN Result(Outcome(wf.calls, None, f),
                         CacheAttr(slf, attrs, name, f, None, invopts))
             ELSE Bind(CallHandle(f, CallArgs(attrargs),
                                  fail - Len(wf.calls)), LAMBDA c :
                      IF c.exc # None
                      THEN Result(Outcome(wf.calls \o c.calls, c.exc, None),
                                  attrs)
                      ELSE Result(Outcome(wf.calls \o c.calls, None, c.ret),
                                  CacheAttr(slf, attrs, name, f, None,
                                            invopts)))
        ELSE IF attrargs # None
        THEN Result(NoFunction(wf.calls), attrs)
        ELSE
    Bind(wrapproperty(rmt, slf, name, execargs, fail - Len(wf.calls)),
         LAMBDA wp :
    Bind(wp.ret, LAMBDA prop :
        IF wp.exc # None
        THEN Result(Outcome(wf.calls \o wp.calls, wp.exc, None), attrs)
        ELSE IF truthy(prop)
        THEN Bind(CallHandle(prop, <<>>,
                             fail - (Len(wf.calls) + Len(wp.calls))),
                  LAMBDA c :
                 IF c.exc # None
                 THEN Result(Outcome(wf.calls \o wp.calls \o c.calls,
                                     c.exc, None), attrs)
                 ELSE Result(Outcome(wf.calls \o wp.calls \o c.calls,
                                     None, c.ret),
                             CacheAttr(slf, attrs, name, None, prop,
                                       invopts)))
        ELSE Result(Absent(wf.calls \o wp.calls), attrs)))))

\* a variant of tryinvoke that catches every exception
tryinvoke_CatchesAll(rmt, slf, attrs, name, attrargs, execargs, invopts, fail) ==
    Bind(invoke(rmt, slf, attrs, name, execargs, attrargs, invopts, fail),
         LAMBDA r :
        IF r.exc # None
        THEN Result(Outcome(r.calls, None, None), r.attrs)
        ELSE r)

\* tryinvoke(name, attrargs, *execargs, **invopts)
tryinvoke(rmt, slf, attrs, name, attrargs, execargs, invopts, fail) ==
    Bind(invoke(rmt, slf, attrs, name, execargs, attrargs, invopts, fail),
         LAMBDA r :
        IF r.exc = InvalidJavaScriptAttribute
        THEN Result(Outcome(r.calls, None, None), r.attrs)
        ELSE r)

\* __getattr__ / __getitem__: a name in the cache is answered from the cache
CacheHit(attrs, name) == Outcome(<<>>, None, attrs[name])

\* name.startswith("__") and name.endswith("__")
isdunder(name) ==
    /\ Len(name.toks) >= 1
    /\ Head(name.toks) = "__"
    /\ name.toks[Len(name.toks)] = "__"

\* __getattr__(name)
__getattr__(rmt, slf, attrs, name, fail) ==
    IF name \in DOMAIN attrs
    THEN Result(CacheHit(attrs, name), attrs)
    ELSE IF ~isidentifier(name) \/ isdunder(name)
    THEN Result(Outcome(<<>>, InvalidJavaScriptAttribute, None), attrs)
    ELSE invoke(rmt, slf, attrs, name, <<>>, None, <<>>, fail)

\* __getitem__(name)
__getitem__(rmt, slf, attrs, name, fail) ==
    IF name \in DOMAIN attrs
    THEN Result(CacheHit(attrs, name), attrs)
    ELSE invoke(rmt, slf, attrs, name, <<>>, None, <<>>, fail)

(***************************************************************************)
(* The listings of attribute names, populate, populateall, wrap,           *)
(* clearcache and __contains__.                                            *)
(***************************************************************************)
PyDict(items) == [tag |-> "dict", items |-> items]
PyProperty(fget) == [tag |-> "property", fget |-> fget]

\* props.keys() as the remote side builds it: own names first, then the
\* prototype's
AllNames == <<"f", "p", "g">>

\* Object.getOwnPropertyNames(obj)
OwnNames(rmt) == SelectSeq(AllNames, LAMBDA n : rmt[n].own)

\* a variant of TypeofIndexed that indexes the string typeof(obj) by the
\* name, which is undefined for an attribute name
TypeofIndexed_OfTypeName(rmt, n) == "undefined"

\* typeof(obj)[p]: member access binds tighter than typeof, so this is
\* typeof((obj)[p]), the type of the attribute p
TypeofIndexed(rmt, n) == rmt[n].type

\* a listing once _define() has answered d: one request whose answer is
\* the list of names
Listing(slf, d, stmt, names, execargs0, fail) ==
    IF d.exc # None THEN Outcome(<<>>, d.exc, None)
    ELSE Execute(_exec(slf, stmt, d.passobj, _resolveargs(execargs0)),
                 fail, PyList(names))

\* attributes(*execargs)
attributes(rmt, slf, execargs, fail) ==
    Bind(_define(slf, None), LAMBDA d :
        Listing(slf, d,
                <<"Object.getOwnPropertyNames(">> \o d.jsdef \o <<")">>,
                OwnNames(rmt), execargs, fail))

\* functions(*execargs)
functions(rmt, slf, execargs, fail) ==
    Bind(_define(slf, None), LAMBDA d :
        Listing(slf, d,
                <<"Object.getOwnPropertyNames(">> \o d.jsdef
                  \o <<").filter(p => typeof(">> \o d.jsdef
                  \o <<"[p]) === \"function\")">>,
                SelectSeq(OwnNames(rmt), LAMBDA n : rmt[n].type = "function"),
                execargs, fail))

\* properties(*execargs)
properties(rmt, slf, execargs, fail) ==
    Bind(_define(slf, None), LAMBDA d :
        Listing(slf, d,
                <<"Object.getOwnPropertyNames(">> \o d.jsdef
                  \o <<").filter(p => typeof(">> \o d.jsdef
                  \o <<")[p] !== \"function\")">>,
                SelectSeq(OwnNames(rmt),
                          LAMBDA n : TypeofIndexed(rmt, n) # "function"),
                execargs, fail))

\* the loop of the all* listings that collects the names of the object and
\* of its prototypes
CollectNames(jsdef) ==
    <<"(() => { let props = new Set(); let current = ">> \o jsdef
      \o <<"; do { Object.getOwnPropertyNames(current).map(p => props.add(p)); } while ((current = Object.getPrototypeOf(current))); ">>

\* allattributes(*execargs)
allattributes(rmt, slf, execargs, fail) ==
    Bind(_define(slf, None), LAMBDA d :
        Listing(slf, d,
                CollectNames(d.jsdef)
                  \o <<"return [...props.keys()]", " })();">>,
                AllNames, execargs, fail))

\* allfunctions(*execargs)
allfunctions(rmt, slf, execargs, fail) ==
    Bind(_define(slf, None), LAMBDA d :
        Listing(slf, d,
                CollectNames(d.jsdef)
                  \o <<"return [...props.keys()]", ".filter(p => typeof(">>
                  \o d.jsdef \o <<"[p]) === \"function\")", " })();">>,
                SelectSeq(AllNames, LAMBDA n : rmt[n].type = "function"),
                execargs, fail))

\* allproperties(*execargs)
allproperties(rmt, slf, execargs, fail) ==
    Bind(_define(slf, None), LAMBDA d :
        Listing(slf, d,
                CollectNames(d.jsdef)
                  \o <<"return [...props.keys()]", ".filter(p => typeof(">>
                  \o d.jsdef \o <<"[p]) !== \"function\")", " })();">>,
                SelectSeq(AllNames, LAMBDA n : rmt[n].type # "function"),
                execargs, fail))

\* {attr: self.invoke(attr, *execargs, **invopts) for attr in attrs}
RECURSIVE invokeeach(_, _, _, _, _, _, _)
invokeeach(rmt, slf, attrs, names, execargs, invopts, fail) ==
    IF names = <<>>
    THEN Result(Outcome(<<>>, None, <<>>), attrs)
    ELSE
    Bind(invoke(rmt, slf, attrs, str(<<Head(names)>>), execargs, None,
                invopts, fail), LAMBDA r :
        IF r.exc # None THEN r
        ELSE
    Bind(invokeeach(rmt, slf, r.attrs, Tail(names), execargs, invopts,
                    fail - Len(r.calls)), LAMBDA rest :
        IF rest.exc # None
        THEN Result(Outcome(r.calls \o rest.calls, rest.exc, None),
                    rest.attrs)
        ELSE Result(Outcome(r.calls \o rest.calls, None,
                            (str(<<Head(names)>>) :> r.ret) @@ rest.ret),
                    rest.attrs)))

\* the rest of populate / populateall once the names are listed
Populated(rmt, slf, attrs, l, execargs, invopts, fail) ==
    IF l.exc # None THEN Result(l, attrs)
    ELSE
    Bind(invokeeach(rmt, slf, attrs, l.ret.items, execargs, invopts,
                    fail - Len(l.calls)), LAMBDA r :
        Result(Outcome(l.calls \o r.calls, r.exc,
                       IF r.exc # None THEN None ELSE PyDict(r.ret)),
               r.attrs))

\* populate(*execargs, **invopts)
populate(rmt, slf, attrs, execargs, invopts, fail) ==
    Bind(dictget(invopts, "iffunc", TRUE), LAMBDA iffunc :
    Bind(dictget(invopts, "ifprop", TRUE), LAMBDA ifprop :
        Populated(rmt, slf, attrs,
                  IF iffunc
                  THEN IF ifprop
                       THEN attributes(rmt, slf, execargs, fail)
                       ELSE functions(rmt, slf, execargs, fail)
                  ELSE IF ifprop
                  THEN properties(rmt, slf, execargs, fail)
                  ELSE attributes(rmt, slf, execargs, fail),
                  execargs,
                  [cacheattr |-> TRUE, iffunc |-> iffunc, ifprop |-> ifprop,
                   overwrite |-> TRUE],
                  fail)))

\* populateall(*execargs, **invopts): it passes iffunc as ifprop and ifprop
\* as iffunc to invoke
populateall(rmt, slf, attrs, execargs, invopts, fail) ==
    Bind(dictget(invopts, "iffunc", TRUE), LAMBDA iffunc :
    Bind(dictget(invopts, "ifprop", TRUE), LAMBDA ifprop :
        Populated(rmt, slf, attrs,
                  IF iffunc
                  THEN IF ifprop
                       THEN allattributes(rmt, slf, execargs, fail)
                       ELSE allfunctions(rmt, slf, execargs, fail)
                  ELSE IF ifprop
                  THEN allproperties(rmt, slf, execargs, fail)
                  ELSE allattributes(rmt, slf, execargs, fail),
                  execargs,
                  [cacheattr |-> TRUE, ifprop |-> iffunc, iffunc |-> ifprop,
                   overwrite |-> TRUE],
                  fail)))

\* {f: self.wrapfunction(f, *execargs) for f in funcs}
RECURSIVE wrapfunctions(_, _, _, _, _)
wrapfunctions(rmt, slf, names, execargs, fail) ==
    IF names = <<>> THEN Outcome(<<>>, None, <<>>)
    ELSE
    Bind(wrapfunction(rmt, slf, str(<<Head(names)>>), execargs, fail),
         LAMBDA w :
        IF w.exc # None THEN w
        ELSE
    Bind(wrapfunctions(rmt, slf, Tail(names), execargs,
                       fail - Len(w.calls)), LAMBDA rest :
        Outcome(w.calls \o rest.calls, rest.exc,
                IF rest.exc # None THEN None
                ELSE (str(<<Head(names)>>) :> w.ret) @@ rest.ret)))

\* wrapproperty(p, *execargs) with as_function left False: the getter comes
\* as a Python property
AsProperty(getter) == IF getter = None THEN None ELSE PyProperty(getter)

\* {p: self.wrapproperty(p, *execargs) for p in props}
RECURSIVE wrapproperties(_, _, _, _, _)
wrapproperties(rmt, slf, names, execargs, fail) ==
    IF names = <<>> THEN Outcome(<<>>, None, <<>>)
    ELSE
    Bind(wrapproperty(rmt, slf, str(<<Head(names)>>), execargs, fail),
         LAMBDA w :
        IF w.exc # None THEN w
        ELSE
    Bind(wrapproperties(rmt, slf, Tail(names), execargs,
                        fail - Len(w.calls)), LAMBDA rest :
        Outcome(w.calls \o rest.calls, rest.exc,
                IF rest.exc # None THEN None
                ELSE (str(<<Head(names)>>) :> AsProperty(w.ret))
                       @@ rest.ret)))

\* wrap(*execargs, **invopts); the cache is not touched
wrap(rmt, slf, execargs, invopts, fail) ==
    Bind(functions(rmt, slf, execargs, fail), LAMBDA funcs :
        IF funcs.exc # None THEN funcs
        ELSE
    Bind(properties(rmt, slf, execargs, fail - 1), LAMBDA props :
        IF props.exc # None
        THEN Outcome(funcs.calls \o props.calls, props.exc, None)
        ELSE
    Bind(IF dictget(invopts, "iffunc", TRUE)
         THEN wrapfunctions(rmt, slf, funcs.ret.items, execargs, fail - 2)
         ELSE Outcome(<<>>, None, <<>>), LAMBDA wfuncs :
        IF wfuncs.exc # None
        THEN Outcome(funcs.calls \o props.calls \o wfuncs.calls,
                     wfuncs.exc, None)
        ELSE
    Bind(IF dictget(invopts, "ifprop", TRUE)
         THEN wrapproperties(rmt, slf, props.ret.items, execargs,
                             fail - (2 + Len(wfuncs.calls)))
         ELSE Outcome(<<>>, None, <<>>), LAMBDA wprops :
        Outcome(funcs.calls \o props.calls \o wfuncs.calls
                  \o wprops.calls,
                wprops.exc,
                IF wprops.exc # None THEN None
                ELSE PyDict(wfuncs.ret @@ wprops.ret))))))

\* clearcache(): self._attrs.clear()
clearcache(attrs) == <<>>

\* __contains__(attr)
__contains__(attrs, attr) == noneoremptystr(attr) \in DOMAIN attrs

(***************************************************************************)
(* JavaScriptObject.new, get, set                                          *)
(***************************************************************************)
JacketException == Exc("JacketException", 0)

\* an instance a call returns: its fields and its (empty) cache
Instance(slf) == [tag |-> "JavaScriptObject", self |-> slf, _attrs |-> <<>>]

\* setupargs(lambda i: i, 0, n)
setupargs(n) == [i \in 1..n |-> ArgumentsTok(i - 1)]

\* JavaScriptObject.new(obj, name, jsexec, *ctorargs, **invopts)
new(obj0, name0, ctorargs, invopts, fail) ==
    Bind(noneoremptystr(name0), LAMBDA name :
        IF ~(truthy(name) /\ isidentifier(name))
        THEN Outcome(<<>>, InvalidJavaScriptAttribute, None)
        ELSE
    Bind(noneoremptystr(obj0), LAMBDA obj :
        IF ~(truthy(obj) /\ isidentifier(obj))
        THEN Outcome(<<>>, InvalidJavaScriptAttribute, None)
        ELSE
    Bind(Execute(Request(name.toks \o <<" = new ">> \o obj.toks \o <<"(">>
                           \o join(setupargs(Len(ctorargs)), ",")
                           \o <<")">>,
                         _resolveargs(ctorargs)),
                 fail, None), LAMBDA q :
        IF q.exc # None THEN q
        ELSE Outcome(q.calls, None,
                     Instance(JavaScriptObject(
                         name, <<>>, ("strobj" :> FALSE) @@ invopts))))))

\* get(name)
get(name0, fail) ==
    Bind(noneoremptystr(name0), LAMBDA name :
        IF ~(truthy(name) \/ isidentifier(name))
        THEN Outcome(<<>>, JacketException, None)
        ELSE Bind(Request(<<"return ">> \o name.toks, <<>>), LAMBDA req :
                 Execute(req, fail, JsResult(req))))

\* set(name, expr)
set(name0, expr, fail) ==
    Bind(noneoremptystr(name0), LAMBDA name :
        IF ~(truthy(name) \/ isidentifier(name))
        THEN Outcome(<<>>, JacketException, None)
        ELSE Execute(Request(name.toks \o <<" = ">> \o <<"arguments[0]">>,
                             <<expr>>),
                     fail, None))

\* an attribute of a value that has none of the attributes of the remote
\* object
Unbound == [type |-> "undefined", arity |-> 0, own |-> FALSE]

\* the remote side after the outcome r of `name = ...`: the assignment,
\* once run, rebinds the global, and when that is the global the object
\* wraps, the new value has none of the attributes
Assigned(rmt, slf, name0, r) ==
    IF r.exc = None /\ r.calls # <<>> /\ slf._obj = noneoremptystr(name0)
    THEN [n \in DOMAIN rmt |-> Unbound]
    ELSE rmt

(***************************************************************************)
(* The inputs the model draws.                                             *)
(***************************************************************************)
\* the remote object: f is a function of the given arity and p a plain
\* property, both its own; g is a function its prototype gives it; every
\* other name is undefined
Remote(arity) ==
    [f |-> [type |-> "function", arity |-> arity, own |-> TRUE],
     p |-> [type |-> "number", arity |-> 0, own |-> TRUE],
     g |-> [type |-> "function", arity |-> 0, own |-> FALSE]]

Names == {str(<<"f">>), str(<<"p">>), str(<<"u">>)}

\* how the wrapped object is given to the constructor: (obj, execargs, strobj)
ObjInputs ==
    {<<Object("elem"), <<>>, FALSE>>,
     <<str(<<"win">>), <<>>, FALSE>>,
     <<str(<<"win">>), <<>>, TRUE>>,
     <<str(<<"'", "lit", "'">>), <<>>, FALSE>>,
     <<str(<<" ">>), <<>>, FALSE>>,
     <<None, <<>>, FALSE>>,
     <<str(<<"$(", "arguments[0]", ")">>), <<Object("elem")>>, FALSE>>,
     <<str(<<"h(", "arguments[0]", ",", "arguments[1]", ")">>),
       <<Object("e1"), Callable(Object("e2"))>>, FALSE>>}

GlobalOptNames == {"cacheattrs", "cachefuncs", "cacheprops", "overwrite"}
LocalOptNames == {"cacheattr", "iffunc", "ifprop", "overwrite"}

\* keyword dicts: any subset of the option names, each True or False
Dicts(keys) == UNION {[D -> BOOLEAN] : D \in SUBSET keys}

\* the caller's arguments a1, a2, ...
A(i) == Object(<<"a", i>>)
ArgTuple(n) == [i \in 1..n |-> A(i)]

\* attrargs: None, or a tuple of 0..MaxArity arguments
AttrArgs == {None} \cup {Tuple(ArgTuple(n)) : n \in 0..MaxArity}

\* extra executor arguments passed to invoke
ExecArgs == {<<>>, <<Object("x")>>}

\* which request of an operation the executor fails (0: none)
Fails == 0..3

\* InvokeOption.localcacheall()
localcacheall ==
    [k \in LocalOptNames |-> TRUE]

\* calls of invoke that resolve a name under every combination of the
\* per-call options
OptionInputs ==
    [name : Names, execargs : ExecArgs, attrargs : {None},
     invopts : Dicts(LocalOptNames), fail : {0}]

\* calls of invoke under every combination of attrargs and executor
\* failure, the per-call options absent or all set
CallInputs ==
    [name : Names, execargs : ExecArgs, attrargs : AttrArgs,
     invopts : {<<>>, localcacheall}, fail : Fails]

(***************************************************************************)
(* The state: one JavaScriptObject over one executor, and its caller.      *)
(*   remote  the remote object's attributes                                *)
(*   self    the instance's fields other than the cache                    *)
(*   _attrs  the attribute cache                                           *)
(*   calls   the requests the last operation sent to the executor          *)
(*   last    the operation the caller has just made: its inputs, what it   *)
(*           returned or raised, and the cache before it; NoOp once the    *)
(*           caller has let go of the result                               *)
(***************************************************************************)
NoOp == [op |-> "none"]

Op(op, name, execargs, attrargs, invopts, fail, res, pre) ==
    [op |-> op, name |-> name, execargs |-> execargs, attrargs |-> attrargs,
     invopts |-> invopts, fail |-> fail, exc |-> res.exc, ret |-> res.ret,
     pre |-> pre]

\* obj.invoke(name, *execargs, attrargs=attrargs, **invopts)
Invoke(Inputs) ==
    /\ last = NoOp
    /\ \E i \in Inputs :
          \E r \in {invoke(remote, self, _attrs, i.name, i.execargs,
                            i.attrargs, i.invopts, i.fail)} :
              /\ i.fail <= Len(r.calls)
              /\ _attrs' = r.attrs
              /\ calls' = r.calls
              /\ last' = Op("invoke", i.name, i.execargs, i.attrargs,
                            i.invopts, i.fail, r, _attrs)
    /\ UNCHANGED <<remote, self, respvars>>

\* obj.run(*execargs): `return self.invoke(None, *execargs)`
Run ==
    /\ last = NoOp
    /\ \E execargs \in ExecArgs, fail \in Fails :
          \E r \in {invoke(remote, self, _attrs, None, execargs, None, <<>>,
                            fail)} :
              /\ fail <= Len(r.calls)
              /\ _attrs' = r.attrs
              /\ calls' = r.calls
              /\ last' = Op("run", None, execargs, None, <<>>, fail, r,
                            _attrs)
    /\ UNCHANGED <<remote, self, respvars>>

\* obj.name
GetAttr ==
    /\ last = NoOp
    /\ \E name \in Names, fail \in Fails :
          \E r \in {__getattr__(remote, self, _attrs, name, fail)} :
              /\ fail <= Len(r.calls)
              /\ _attrs' = r.attrs
              /\ calls' = r.calls
              /\ last' = Op("getattr", name, <<>>, None, <<>>, fail, r,
                            _attrs)
    /\ UNCHANGED <<remote, self, respvars>>

\* obj[name]
GetItem ==
    /\ last = NoOp
    /\ \E name \in Names, fail \in Fails :
          \E r \in {__getitem__(remote, self, _attrs, name, fail)} :
              /\ fail <= Len(r.calls)
              /\ _attrs' = r.attrs
              /\ calls' = r.calls
              /\ last' = Op("getitem", name, <<>>, None, <<>>, fail, r,
                            _attrs)
    /\ UNCHANGED <<remote, self, respvars>>

\* the caller calls the function proxy or getter it was just given, or one
\* it reads from the cache, with nargs arguments
CallProxy ==
    /\ \E h \in {x \in {IF last = NoOp THEN None ELSE last.ret}
                       \cup Range(_attrs) : x.tag = "handle"},
          nargs \in 0..MaxArity, fail \in 0..1 :
          \E r \in {CallHandle(h, ArgTuple(nargs), fail)} :
              /\ fail <= Len(r.calls)
              /\ calls' = r.calls
              /\ last' = [op |-> "call", handle |-> h,
                          args |-> ArgTuple(nargs),
                          exc |-> r.exc, ret |-> r.ret, pre |-> _attrs]
    /\ UNCHANGED <<remote, self, _attrs, respvars>>

\* calls of tryinvoke: with and without attrargs, the executor answering or
\* failing one of the first two requests
TryInputs ==
    [name : Names, execargs : {<<>>},
     attrargs : {None, Tuple(<<>>), Tuple(ArgTuple(1))},
     invopts : {<<>>, localcacheall}, fail : 0..2]

\* obj.tryinvoke(name, attrargs, *execargs, **invopts)
TryInvoke ==
    /\ last = NoOp
    /\ \E i \in TryInputs :
          \E r \in {tryinvoke(remote, self, _attrs, i.name, i.attrargs,
                               i.execargs, i.invopts, i.fail)} :
              /\ i.fail <= Len(r.calls)
              /\ _attrs' = r.attrs
              /\ calls' = r.calls
              /\ last' = Op("tryinvoke", i.name, i.execargs, i.attrargs,
                            i.invopts, i.fail, r, _attrs)
    /\ UNCHANGED <<remote, self, respvars>>

\* the per-call options given to populate, populateall and wrap
KindOpts ==
    {<<>>, [iffunc |-> FALSE], [ifprop |-> FALSE],
     [iffunc |-> FALSE, ifprop |-> FALSE]}

\* obj.populate(*execargs, **invopts)
Populate ==
    /\ last = NoOp
    /\ \E execargs \in ExecArgs, invopts \in KindOpts, fail \in Fails :
          \E r \in {populate(remote, self, _attrs, execargs, invopts, fail)} :
              /\ fail <= Len(r.calls)
              /\ _attrs' = r.attrs
              /\ calls' = r.calls
              /\ last' = Op("populate", None, execargs, None, invopts, fail,
                            r, _attrs)
    /\ UNCHANGED <<remote, self, respvars>>

\* obj.populateall(*execargs, **invopts)
PopulateAll ==
    /\ last = NoOp
    /\ \E execargs \in ExecArgs, invopts \in KindOpts, fail \in Fails :
          \E r \in {populateall(remote, self, _attrs, execargs, invopts,
                                 fail)} :
              /\ fail <= Len(r.calls)
              /\ _attrs' = r.attrs
              /\ calls' = r.calls
              /\ last' = Op("populateall", None, execargs, None, invopts,
                            fail, r, _attrs)
    /\ UNCHANGED <<remote, self, respvars>>

\* obj.wrap(*execargs, **invopts)
Wrap ==
    /\ last = NoOp
    /\ \E execargs \in ExecArgs, invopts \in KindOpts, fail \in Fails :
          \E r \in {wrap(remote, self, execargs, invopts, fail)} :
              /\ fail <= Len(r.calls)
              /\ calls' = r.calls
              /\ last' = Op("wrap", None, execargs, None, invopts, fail, r,
                            _attrs)
    /\ UNCHANGED <<remote, self, _attrs, respvars>>

\* obj.clearcache()
ClearCache ==
    /\ last = NoOp
    /\ _attrs # <<>>
    /\ _attrs' = clearcache(_attrs)
    /\ calls' = <<>>
    /\ last' = Op("clearcache", None, <<>>, None, <<>>, 0,
                  Outcome(<<>>, None, None), _attrs)
    /\ UNCHANGED <<remote, self, respvars>>

\* the caller lets go of the result of its last operation
Discard ==
    /\ last # NoOp
    /\ last' = NoOp
    /\ calls' = <<>>
    /\ UNCHANGED <<remote, self, _attrs, respvars>>

\* no script is running on the remote side
JsIdle == [status |-> "idle", stmts |-> <<>>, args |-> <<>>, pc |-> 0,
           log |-> <<>>]

RespIdle == resp = None /\ rlast = NoOp /\ nexc = 0 /\ js = JsIdle

\* Spec: one object that passes its wrapped object positionally, under every
\* combination of the per-instance and the per-call options
Init ==
    /\ remote = Remote(1)
    /\ \E g \in Dicts(GlobalOptNames) :
          self = JavaScriptObject(Object("elem"), <<>>, g)
    /\ _attrs = <<>>
    /\ calls = <<>>
    /\ last = NoOp
    /\ RespIdle

Next ==
    \/ Invoke(OptionInputs)
    \/ Run
    \/ GetAttr
    \/ GetItem
    \/ Discard

Spec == Init /\ [][Next]_vars

\* SpecRef: every way of referencing the wrapped object and every remote
\* arity, with calls of the proxies and executor failures
InitRef ==
    /\ remote \in {Remote(n) : n \in 0..MaxArity}
    /\ \E o \in ObjInputs, g \in {<<>>, [overwrite |-> FALSE]} :
          self = JavaScriptObject(o[1], o[2], g @@ ("strobj" :> o[3]))
    /\ _attrs = <<>>
    /\ calls = <<>>
    /\ last = NoOp
    /\ RespIdle

NextRef ==
    \/ Invoke(CallInputs)
    \/ Run
    \/ GetAttr
    \/ GetItem
    \/ CallProxy
    \/ Discard

SpecRef == InitRef /\ [][NextRef]_vars

\* calls of invoke that resolve a name, the per-call options absent or all
\* set, the executor answering or failing the first request
CacheInputs ==
    [name : Names, execargs : {<<>>}, attrargs : {None},
     invopts : {<<>>, localcacheall}, fail : 0..1]

\* SpecCache: the life of the attribute cache under every operation that
\* reads or fills it, for every way of referencing the wrapped object
\* obj.attributes(*execargs)
ListAttributes ==
    /\ last = NoOp
    /\ \E execargs \in ExecArgs, fail \in 0..1 :
          \E r \in {attributes(remote, self, execargs, fail)} :
              /\ fail <= Len(r.calls)
              /\ calls' = r.calls
              /\ last' = Op("attributes", None, execargs, None, <<>>, fail, r,
                            _attrs)
    /\ UNCHANGED <<remote, self, _attrs, respvars>>

\* obj.functions(*execargs)
ListFunctions ==
    /\ last = NoOp
    /\ \E execargs \in ExecArgs, fail \in 0..1 :
          \E r \in {functions(remote, self, execargs, fail)} :
              /\ fail <= Len(r.calls)
              /\ calls' = r.calls
              /\ last' = Op("functions", None, execargs, None, <<>>, fail, r,
                            _attrs)
    /\ UNCHANGED <<remote, self, _attrs, respvars>>

\* obj.properties(*execargs)
ListProperties ==
    /\ last = NoOp
    /\ \E execargs \in ExecArgs, fail \in 0..1 :
          \E r \in {properties(remote, self, execargs, fail)} :
              /\ fail <= Len(r.calls)
              /\ calls' = r.calls
              /\ last' = Op("properties", None, execargs, None, <<>>, fail, r,
                            _attrs)
    /\ UNCHANGED <<remote, self, _attrs, respvars>>

\* obj.allattributes(*execargs)
ListAllAttributes ==
    /\ last = NoOp
    /\ \E execargs \in ExecArgs, fail \in 0..1 :
          \E r \in {allattributes(remote, self, execargs, fail)} :
              /\ fail <= Len(r.calls)
              /\ calls' = r.calls
              /\ last' = Op("allattributes", None, execargs, None, <<>>, fail, r,
                            _attrs)
    /\ UNCHANGED <<remote, self, _attrs, respvars>>

\* obj.allfunctions(*execargs)
ListAllFunctions ==
    /\ last = NoOp
    /\ \E execargs \in ExecArgs, fail \in 0..1 :
          \E r \in {allfunctions(remote, self, execargs, fail)} :
              /\ fail <= Len(r.calls)
              /\ calls' = r.calls
              /\ last' = Op("allfunctions", None, execargs, None, <<>>, fail, r,
                            _attrs)
    /\ UNCHANGED <<remote, self, _attrs, respvars>>

\* obj.allproperties(*execargs)
ListAllProperties ==
    /\ last = NoOp
    /\ \E execargs \in ExecArgs, fail \in 0..1 :
          \E r \in {allproperties(remote, self, execargs, fail)} :
              /\ fail <= Len(r.calls)
              /\ calls' = r.calls
              /\ last' = Op("allproperties", None, execargs, None, <<>>, fail, r,
                            _attrs)
    /\ UNCHANGED <<remote, self, _attrs, respvars>>

InitCache ==
    /\ remote = Remote(1)
    /\ \E o \in ObjInputs :
          self = JavaScriptObject(o[1], o[2], [strobj |-> o[3]])
    /\ _attrs = <<>>
    /\ calls = <<>>
    /\ last = NoOp
    /\ RespIdle

NextCache ==
    \/ Invoke(CacheInputs)
    \/ Run
    \/ TryInvoke
    \/ GetAttr
    \/ GetItem
    \/ CallProxy
    \/ Populate
    \/ PopulateAll
    \/ Wrap
    \/ ClearCache
    \/ ListAttributes
    \/ ListFunctions
    \/ ListProperties
    \/ ListAllAttributes
    \/ ListAllFunctions
    \/ ListAllProperties
    \/ Discard

SpecCache == InitCache /\ [][NextCache]_vars

(***************************************************************************)
(* jquery.py and JavaScriptResponse: the deferred-failure responses.       *)
(*                                                                         *)
(* A response object is the JavaScriptObject fields together with cls,     *)
(* _raw and _exc.  Exception objects get their identity from the number n  *)
(* of exception objects created so far.                                    *)
(***************************************************************************)
Element(id) == [tag |-> "element", id |-> id]
PyBool(b) == [tag |-> "bool", value |-> b]
BoundMethod(name) == [tag |-> "method", name |-> name]

\* the outcome of a step that may create exception objects: n is the number
\* of exception objects after it
ROutcome(reqs, exc, ret, n) ==
    [calls |-> reqs, exc |-> exc, ret |-> ret, n |-> n]

\* JQueryElement.__init__(element, jsexec)
JQueryElement(element) ==
    [cls |-> "JQueryElement", _element |-> element]
    @@ JavaScriptObject(str(<<"$(", "arguments[0]", ")">>), <<element>>,
                        [strobj |-> FALSE])

\* `_exc = JacketException(exception) if isinstance(exception, str) else
\* exception`
CapturedException(exception, n) ==
    IF exception.tag = "str" THEN Exc("JacketException", n + 1) ELSE exception

\* a variant of RaiseCaptured that raises a new exception wrapping the
\* captured one
RaiseWrapped(exc, n) ==
    ROutcome(<<>>, Exc("JacketException", n + 1), None, n + 1)

\* __getattribute__: `raise exc`.  An AttributeError raised by
\* __getattribute__ makes Python call JavaScriptObject.__getattr__, whose
\* body reads self._attrs through __getattribute__ again, which raises
\* again, until the recursion limit: a RecursionError comes out
RaiseCaptured(exc, n) ==
    IF exc.type = "AttributeError"
    THEN ROutcome(<<>>, Exc("RecursionError", n + 1), None, n + 1)
    ELSE ROutcome(<<>>, exc, None, n)

\* __getattribute__: the guard `exc and item != "__bool__"`, item being the
\* name of the attribute that is read
Guarded(r, item) == truthy(r._exc) /\ item # "__bool__"

\* self.<field> in a method body, for an instance field: the read goes
\* through type(r).__getattribute__(r, field)
FieldAccess(r, field, n) ==
    IF Guarded(r, field)
    THEN RaiseCaptured(r._exc, n)
    ELSE ROutcome(<<>>, None, r[field], n)

\* the body of the property or method `item` of the response classes
\* (exception, success, raw_response), run by object.__getattribute__
PropertyBody(r, item, n) ==
    LET exc == FieldAccess(r, "_exc", n)
    IN  CASE item = "exception" -> exc
          [] item = "success" ->
                IF exc.exc # None THEN exc
                ELSE ROutcome(<<>>, None, PyBool(exc.ret = None), n)
          [] item = "raw_response" -> FieldAccess(r, "_raw", n)

InstanceFields == {"_exc", "_raw", "_obj", "strobj"}
Properties == {"exception", "success", "raw_response"}

\* the attribute a read of `item` ends up reading: the body of the property
\* `response` is `return self._r`, a read that goes through
\* type(r).__getattribute__ again, and no code assigns _r
ReadName(item) == IF item = "response" THEN "_r" ELSE item

\* object.__getattribute__(self, item)
ObjectGetAttribute(r, item, n) ==
    IF item \in InstanceFields THEN ROutcome(<<>>, None, r[item], n)
    ELSE IF item = "__bool__" THEN ROutcome(<<>>, None, BoundMethod(item), n)
    ELSE IF item \in Properties THEN PropertyBody(r, item, n)
    ELSE ROutcome(<<>>, Exc("AttributeError", n + 1), None, n + 1)

\* JavaScriptResponse.__init__(response, jsexec, exception); execout is what
\* the executor answers to `return <response>`: "none", "value" or "raise"
JavaScriptResponse(response0, exception, execout, n) ==
    LET failed   == truthy(exception)
        response == IF failed THEN None ELSE response0
        _exc     == IF failed THEN CapturedException(exception, n) ELSE None
        n1       == IF failed /\ exception.tag = "str" THEN n + 1 ELSE n
        asks     == /\ response.tag = "str"
                    /\ ~(enclosedby(str(<<"\"">>), response)
                           \/ enclosedby(str(<<"'">>), response))
                    /\ isidentifier(response)
        req      == Request(<<"return ">> \o response.toks, <<>>)
        strobj   == IF response.tag = "str"
                    THEN IF ~(enclosedby(str(<<"\"">>), response)
                                \/ enclosedby(str(<<"'">>), response))
                         THEN IF isidentifier(response)
                              THEN execout = "none"
                              ELSE TRUE
                         ELSE FALSE
                    ELSE FALSE
        obj      == [cls |-> "JavaScriptResponse", _raw |-> response,
                     _exc |-> _exc]
                    @@ JavaScriptObject(response, <<>>, [strobj |-> strobj])
    IN  IF asks /\ execout = "raise"
        THEN ROutcome(<<req>>, Exc("WebDriverException", n1 + 1), None, n1 + 1)
        ELSE ROutcome(IF asks THEN <<req>> ELSE <<>>, None, obj, n1)

\* JavaScriptResponse.__getattribute__(item)
JavaScriptResponse__getattribute__(r, item, n) ==
    IF Guarded(r, item)
    THEN RaiseCaptured(r._exc, n)
    ELSE Bind(ObjectGetAttribute(r, ReadName(item), n), LAMBDA o :
             IF o.exc # None
             THEN Bind(JavaScriptResponse(None, o.exc, "none", o.n),
                       LAMBDA f : ROutcome(o.calls, None, f.ret, f.n))
             ELSE o)

\* the elements JQueryResponse.__init__ collects from an iterable response
AllElements(response) ==
    \A i \in DOMAIN response.items : response.items[i].tag = "element"

\* the executor the caller has, the S that wraps it, and element.parent, the
\* driver an element comes from
Driver == Object("jsexec")
SExecutor == Object("S")
Parent(element) == Driver

\* `jsexec or other`
OrElse(jsexec, other) == IF jsexec # None THEN jsexec ELSE other

\* JQueryResponse.__init__: the executor the response keeps; without one
\* given it is the parent of the (first) element, and None when there is
\* no element
ResponseExecutor(response, jsexec, exception) ==
    IF truthy(exception) THEN jsexec
    ELSE IF response.tag = "element"
    THEN OrElse(jsexec, Parent(response))
    ELSE IF response.tag \notin {"list", "tuple"} THEN jsexec
    ELSE IF ~AllElements(response) THEN jsexec
    ELSE IF Len(response.items) > 0
    THEN OrElse(jsexec, Parent(response.items[1]))
    ELSE jsexec

\* JQueryResponse.__init__(response, jsexec, exception)
JQueryResponse(response, jsexec, exception, n) ==
    LET failed == truthy(exception)
        e      == IF failed
                  THEN [exc |-> CapturedException(exception, n),
                        n |-> IF exception.tag = "str" THEN n + 1 ELSE n]
                  ELSE IF response.tag = "element"
                  THEN [exc |-> None, n |-> n]
                  ELSE IF response.tag \notin {"list", "tuple"}
                  THEN [exc |-> Exc("TypeError", n + 1), n |-> n + 1]
                  ELSE IF ~AllElements(response)
                  THEN [exc |-> Exc("TypeError", n + 1), n |-> n + 1]
                  ELSE [exc |-> None, n |-> n]
    IN  Bind([cls |-> "JQueryResponse", _raw |-> response, _exc |-> e.exc,
              _jsexec |-> ResponseExecutor(response, jsexec, exception)]
             @@ JavaScriptObject(str(<<"$(", "arguments[0]", ")">>),
                                 <<response>>, [strobj |-> FALSE]),
             LAMBDA obj :
        \* JavaScriptObject.__init__ reads self.strobj, the wrapped object
        \* being a str
        Bind(FieldAccess(obj, "strobj", e.n), LAMBDA read :
            IF read.exc # None
            THEN read
            ELSE ROutcome(<<>>, None, obj, e.n)))

\* JavaScriptObject.__getattr__(name) on a response: with no executor the
\* first request, self._jsexec.execute_script(..), is an attribute read on
\* None and raises a new AttributeError
ResponseGetAttr(rmt, r, name, n) ==
    IF r._jsexec = None
    THEN ROutcome(<<>>, Exc("AttributeError", n + 1), None, n + 1)
    ELSE Bind(__getattr__(rmt, r, <<>>, str(<<name>>), 0), LAMBDA g :
             ROutcome(g.calls, g.exc, g.ret, n))

\* JQueryResponse.__getattribute__(item); a missing attribute falls back on
\* JavaScriptObject.__getattr__, and so does a property whose body lets an
\* AttributeError out
JQueryResponse__getattribute__(rmt, r, item, n) ==
    IF Guarded(r, item)
    THEN RaiseCaptured(r._exc, n)
    ELSE Bind(ObjectGetAttribute(r, ReadName(item), n), LAMBDA o :
             IF o.exc = None THEN o
             ELSE
         Bind(ResponseGetAttr(rmt, r, ReadName(item), o.n), LAMBDA g :
             IF g.exc # None /\ g.exc.type = "AttributeError"
                /\ ReadName(item) # item
             THEN Bind(ResponseGetAttr(rmt, r, item, g.n), LAMBDA h :
                      ROutcome(g.calls \o h.calls, h.exc, h.ret, h.n))
             ELSE g))

\* type(r).__getattribute__(r, item)
GetAttribute(rmt, r, item, n) ==
    IF r.cls = "JavaScriptResponse"
    THEN JavaScriptResponse__getattribute__(r, item, n)
    ELSE JQueryResponse__getattribute__(rmt, r, item, n)

\* __bool__: `return self._exc is None`
__bool__(r, n) ==
    LET exc == FieldAccess(r, "_exc", n)
    IN  IF exc.exc # None THEN exc
        ELSE ROutcome(<<>>, None, PyBool(exc.ret = None), n)

\* S.execute_script(script, *args); execout is what the wrapped executor
\* does: [raises |-> TRUE] or [raises |-> FALSE, res |-> value]
S_execute_script(script, args, execout, n) ==
    LET req == Request(script, args)
    IN  IF execout.raises
        THEN Bind(JQueryResponse(PyList(<<>>), SExecutor,
                                 Exc("WebDriverException", n + 1), n + 1),
                  LAMBDA r : ROutcome(<<req>>, r.exc, r.ret, r.n))
        ELSE LET res == execout.res
             IN  IF res.tag = "element"
                 THEN ROutcome(<<req>>, None, JQueryElement(res), n)
                 ELSE IF res.tag = "list" /\ Len(res.items) > 0
                 THEN IF res.items[1].tag = "element"
                      THEN Bind(JQueryResponse(res, SExecutor, None, n),
                                LAMBDA r :
                               ROutcome(<<req>>, r.exc, r.ret, r.n))
                      ELSE ROutcome(<<req>>, None, res, n)
                 ELSE ROutcome(<<req>>, None, res, n)

\* a variant of S_query that passes the selector as it was given
S_query_Unstripped(jquery, execout, n) ==
    IF jquery.tag = "str"
    THEN IF truthy(noneoremptystr(jquery))
         THEN S_execute_script(<<"return ", "$(", "arguments[0]", ")">>,
                               <<jquery>>, execout, n)
         ELSE ROutcome(<<>>, None, None, n)
    ELSE IF jquery.tag = "element"
    THEN ROutcome(<<>>, None, JQueryElement(jquery), n)
    ELSE JQueryResponse(jquery, None, None, n)

\* S.query(jquery), dispatched on the type of jquery
S_query(jquery, execout, n) ==
    IF jquery.tag = "str"
    THEN IF truthy(noneoremptystr(jquery))
         THEN S_execute_script(<<"return ", "$(", "arguments[0]", ")">>,
                               <<noneoremptystr(jquery)>>, execout, n)
         ELSE ROutcome(<<>>, None, None, n)
    ELSE IF jquery.tag = "element"
    THEN ROutcome(<<>>, None, JQueryElement(jquery), n)
    ELSE JQueryResponse(jquery, None, None, n)

(***************************************************************************)
(* The state of the responses and their caller.                            *)
(*   resp   the response object the caller holds (None: none)              *)
(*   rlast  the caller's last operation on the responses: its inputs and   *)
(*          what it returned or raised                                     *)
(*   nexc   the number of exception objects created so far                 *)
(***************************************************************************)
\* a failure the caller passes as `exception`: none, a message, or an
\* exception object it has just created
Exceptions(n) ==
    {None, str(<<>>), str(<<"msg">>), Exc("ValueError", n + 1),
     Exc("AttributeError", n + 1)}

\* the number of exception objects once the caller has made `exception`
Made(exception, n) == IF exception.tag = "exception" THEN n + 1 ELSE n

\* what a JavaScriptResponse is made from
ResponseInputs ==
    {None, Object("elem"), str(<<"win">>), str(<<"'", "lit", "'">>),
     str(<<"win", ".", "p">>)}

\* what a JQueryResponse is made from, and what the executor under S answers
ElementInputs ==
    {Element("e1"), PyList(<<>>), PyList(<<Element("e1")>>),
     PyList(<<Element("e1"), Element("e2")>>),
     PyList(<<Element("e1"), PyInt(1)>>), PyList(<<PyInt(1)>>), PyInt(1)}

\* the attribute names the caller reads from a response
Items ==
    {"__bool__", "_exc", "_raw", "strobj", "exception", "success",
     "raw_response", "response", "f", "u"}

IsResponse(v) == "cls" \in DOMAIN v /\ v.cls \in {"JavaScriptResponse", "JQueryResponse"}

\* the response the caller holds after an operation that answered out
Held(out) == IF out.exc = None /\ IsResponse(out.ret) THEN out.ret ELSE None

\* the record of an operation: op(input, exception) applied to the response
\* `on`, with the executor doing execout, after pre exception objects
ROp(op, input, exception, execout, out, on, pre) ==
    [op |-> op, input |-> input, exception |-> exception,
     execout |-> execout, calls |-> out.calls, exc |-> out.exc,
     ret |-> out.ret, on |-> on, pre |-> pre]

\* r = JavaScriptResponse(response, jsexec, exception)
NewJavaScriptResponse ==
    /\ resp = None
    /\ UNCHANGED objvars
    /\ \E response \in ResponseInputs, exception \in Exceptions(nexc),
          execout \in {"none", "value", "raise"} :
          \E out \in {JavaScriptResponse(response, exception, execout,
                                         Made(exception, nexc))} :
              /\ out.n <= MaxExc
              /\ (execout # "none") => out.calls # <<>>
              /\ resp' = Held(out)
              /\ nexc' = out.n
              /\ rlast' = ROp("JavaScriptResponse", response, exception,
                              execout, out, None, Made(exception, nexc))

\* r = JQueryResponse(response, jsexec, exception)
NewJQueryResponse ==
    /\ resp = None
    /\ UNCHANGED objvars
    /\ \E response \in ElementInputs, jsexec \in {None, Driver},
          exception \in Exceptions(nexc) :
          \E out \in {JQueryResponse(response, jsexec, exception,
                                     Made(exception, nexc))} :
              /\ out.n <= MaxExc
              /\ resp' = Held(out)
              /\ nexc' = out.n
              /\ rlast' = ROp("JQueryResponse", response, exception, None,
                              out, None, Made(exception, nexc))
                          @@ [jsexec |-> jsexec]

\* what the executor under S does with a request
ExecOuts ==
    {[raises |-> TRUE]}
    \cup {[raises |-> FALSE, res |-> v] : v \in ElementInputs \cup {None}}

\* r = S(jsexec).execute_script(script, *args)
SExecuteScript ==
    /\ resp = None
    /\ UNCHANGED objvars
    /\ \E execout \in ExecOuts :
          \E out \in {S_execute_script(<<"return ", "f", "()">>, <<>>,
                                       execout, nexc)} :
              /\ out.n <= MaxExc
              /\ resp' = Held(out)
              /\ nexc' = out.n
              /\ rlast' = ROp("execute_script", None, None, execout, out,
                              None, nexc)

\* the selector strings given to query: bare, padded with spaces, blank
\* and empty
Selectors ==
    {str(<<"div">>), str(<<" ", "div", " ">>), str(<<" ">>), str(<<>>)}

\* r = S(jsexec).query(jquery)
SQuery ==
    /\ resp = None
    /\ UNCHANGED objvars
    /\ \E jquery \in ElementInputs \cup Selectors, execout \in ExecOuts :
          \E out \in {S_query(jquery, execout, nexc)} :
              /\ out.n <= MaxExc
              /\ execout # [raises |-> FALSE, res |-> None] => out.calls # <<>>
              /\ resp' = Held(out)
              /\ nexc' = out.n
              /\ rlast' = ROp("query", jquery, None, execout, out, None,
                              nexc)

\* bool(r)
Bool ==
    /\ resp # None
    /\ \E out \in {__bool__(resp, nexc)} :
          /\ out.n <= MaxExc
          /\ nexc' = out.n
          /\ rlast' = ROp("bool", None, None, None, out, resp, nexc)
    /\ UNCHANGED <<resp, objvars>>

\* r.<item>
ReadAttribute ==
    /\ resp # None
    /\ \E item \in Items :
          \E out \in {GetAttribute(remote, resp, item, nexc)} :
              /\ out.n <= MaxExc
              /\ nexc' = out.n
              /\ rlast' = ROp("getattribute", item, None, None, out, resp,
                              nexc)
    /\ UNCHANGED <<resp, objvars>>

\* the caller lets go of the response
Release ==
    /\ resp # None
    /\ resp' = None
    /\ rlast' = NoOp
    /\ UNCHANGED <<nexc, objvars>>

\* SpecResp: the responses, made directly and by S
InitResp ==
    /\ remote = Remote(1)
    /\ self = JavaScriptObject(str(<<"$">>), <<>>, [strobj |-> FALSE])
    /\ _attrs = <<>>
    /\ calls = <<>>
    /\ last = NoOp
    /\ RespIdle

NextResp ==
    \/ NewJavaScriptResponse
    \/ NewJQueryResponse
    \/ SExecuteScript
    \/ SQuery
    \/ Bool
    \/ ReadAttribute
    \/ Release

SpecResp == InitResp /\ [][NextResp]_vars

(***************************************************************************)
(* JQueryElement.click and the remote run of its script.                   *)
(*                                                                         *)
(* js is the remote side of the execute_script call in flight: the         *)
(* statements of the script, the arguments, the statement to run next and  *)
(* the log of the DOM methods that ran, each with the value it ran on.     *)
(***************************************************************************)
\* JQueryElement.__init__(element, jsexec, **invopts)
JQueryElement__init__(element, invopts) ==
    [cls |-> "JQueryElement", _element |-> element]
    @@ JavaScriptObject(str(<<"$(", "arguments[0]", ")">>), <<element>>,
                        [strobj |-> FALSE] @@ invopts)

\* the statement click hands to _exec
ClickStmt ==
    <<"arguments[0]", ".scrollIntoView()", ";", " ",
      "arguments[0]", ".click()", ";">>

\* click(wait): the request of
\* self._exec("arguments[0].scrollIntoView(); arguments[0].click();", False)
click(slf) == _exec(slf, ClickStmt, FALSE, <<>>)

\* the statements of a script: the runs of tokens that its ";" tokens end
RECURSIVE Statements(_, _)
Statements(toks, cur) ==
    IF toks = <<>> THEN IF cur = <<>> THEN <<>> ELSE <<cur>>
    ELSE IF Head(toks) = ";" THEN <<cur>> \o Statements(Tail(toks), <<>>)
    ELSE IF Head(toks) = " " /\ cur = <<>> THEN Statements(Tail(toks), cur)
    ELSE Statements(Tail(toks), Append(cur, Head(toks)))

\* the remote side as it starts on a request
Loaded(req) ==
    [status |-> "running", stmts |-> Statements(req.script, <<>>),
     args |-> req.args, pc |-> 1, log |-> <<>>]

IsReturn(stmt) == Head(stmt) = "return "

\* the expression of a statement: `arguments[0]` followed by a method call
Expression(stmt) == IF IsReturn(stmt) THEN Tail(stmt) ELSE stmt

\* the remote side after the statement at pc: a DOM method runs on an
\* element and is no function of any other value (a tuple arrives as an
\* array); a return statement ends the script, and so does its last
\* statement
RunStatement(j) ==
    Bind(j.stmts[j.pc], LAMBDA stmt :
    Bind(j.args[1], LAMBDA target :
        IF target.tag # "element"
        THEN [j EXCEPT !.status = "threw"]
        ELSE [j EXCEPT !.log = Append(@, [method |-> Expression(stmt)[2],
                                           on |-> target]),
                       !.pc = @ + 1,
                       !.status = IF IsReturn(stmt) \/ j.pc = Len(j.stmts)
                                  THEN "returned" ELSE "running"]))

\* the waits given to click
Waits == {0, 1}

\* el.click(wait) up to the executor call: the request is sent, and the
\* executor either fails with it or starts the script
ClickCall ==
    /\ last = NoOp
    /\ js = JsIdle
    /\ \E wait \in Waits, fail \in 0..1 :
          \E req \in {click(self)} :
              /\ calls' = <<req>>
              /\ js' = IF fail = 1 THEN js ELSE Loaded(req)
              /\ last' = Op("click", None, <<>>, None, <<>>, fail,
                            Execute(req, fail, None), _attrs)
                         @@ [wait |-> wait,
                             phase |-> IF fail = 1 THEN "raised" ELSE "sent"]
    /\ UNCHANGED <<remote, self, _attrs, resp, rlast, nexc>>

\* the remote side runs the next statement of the script
JsStatement ==
    /\ js.status = "running"
    /\ js' = RunStatement(js)
    /\ UNCHANGED <<remote, self, _attrs, calls, last, resp, rlast, nexc>>

\* the executor call of click returns or raises; click sleeps when wait > 0
ClickReturn ==
    /\ last.op = "click"
    /\ last.phase = "sent"
    /\ js.status \in {"returned", "threw"}
    /\ last' = [last EXCEPT
                  !.phase = IF js.status = "threw" THEN "raised"
                            ELSE IF last.wait > 0 THEN "slept"
                            ELSE "returned",
                  !.exc = IF js.status = "threw" THEN WebDriverException
                          ELSE None]
    /\ UNCHANGED <<remote, self, _attrs, calls, js, resp, rlast, nexc>>

\* the elements a JQueryElement wraps
Elements == {Element("e1"), Element("e2")}

\* SpecClick: a JQueryElement under every combination of the per-instance
\* options, clicked once
InitClick ==
    /\ remote = Remote(1)
    /\ \E e \in Elements, g \in Dicts(GlobalOptNames) :
          self = JQueryElement__init__(e, g)
    /\ _attrs = <<>>
    /\ calls = <<>>
    /\ last = NoOp
    /\ RespIdle

NextClick ==
    \/ ClickCall
    \/ JsStatement
    \/ ClickReturn

SpecClick == InitClick /\ [][NextClick]_vars

(***************************************************************************)
(* JavaScriptObjectFactory.                                                *)
(***************************************************************************)
\* a call _configureglobalopts(*positional, **keywords) of the function
\* `def _configureglobalopts(**invopts)`, which takes no positional
\* argument
Call_configureglobalopts(positional, keywords) ==
    IF Len(positional) > 0
    THEN Outcome(<<>>, TypeError, None)
    ELSE Outcome(<<>>, None, _configureglobalopts(keywords))

\* JavaScriptObjectFactory.__init__(jsexec, *execargs, **invopts): it calls
\* `_configureglobalopts(invopts)`, the dict as one positional argument
JavaScriptObjectFactory(execargs, invopts) ==
    Bind(Call_configureglobalopts(<<invopts>>, <<>>), LAMBDA opts :
        IF opts.exc # None THEN opts
        ELSE Outcome(<<>>, None,
                     [cls |-> "JavaScriptObjectFactory",
                      _execargs |-> execargs] @@ opts.ret))

\* factory = JavaScriptObjectFactory(jsexec, *execargs, **invopts)
NewFactory ==
    /\ last = NoOp
    /\ self = None
    /\ \E execargs \in ExecArgs, invopts \in Dicts(GlobalOptNames) :
          \E r \in {JavaScriptObjectFactory(execargs, invopts)} :
              /\ self' = IF r.exc = None THEN r.ret ELSE self
              /\ calls' = r.calls
              /\ last' = Op("JavaScriptObjectFactory", None, execargs, None,
                            invopts, 0, r, _attrs)
    /\ UNCHANGED <<remote, _attrs, respvars>>

\* SpecFactory: the construction of a factory under every combination of
\* the global options
InitFactory ==
    /\ remote = Remote(1)
    /\ self = None
    /\ _attrs = <<>>
    /\ calls = <<>>
    /\ last = NoOp
    /\ RespIdle

NextFactory ==
    \/ NewFactory
    \/ Discard

SpecFactory == InitFactory /\ [][NextFactory]_vars

(***************************************************************************)
(* SpecNames: the operations that take the name of a global variable, with *)
(* names that are and are not identifiers.                                 *)
(***************************************************************************)
\* names given to new / get / set: None, empty, blank, identifiers (bare and
\* padded with spaces), a number and two words
NameInputs ==
    {None, str(<<>>), str(<<" ">>), str(<<"win">>), str(<<" ", "win", " ">>),
     str(<<"Date">>), str(<<"7">>), str(<<"win", " ", "f">>)}

\* constructor arguments given to new
CtorArgs == {<<>>, <<A(1)>>, <<A(1), Callable(A(2))>>}

\* JavaScriptObject.new(obj, name, jsexec, *ctorargs, **invopts)
New ==
    /\ last = NoOp
    /\ \E obj \in NameInputs, name \in NameInputs, ctorargs \in CtorArgs,
          invopts \in {<<>>, [cacheattrs |-> TRUE], [strobj |-> TRUE]},
          fail \in 0..1 :
          \E r \in {new(obj, name, ctorargs, invopts, fail)} :
              /\ fail <= Len(r.calls)
              /\ calls' = r.calls
              /\ remote' = Assigned(remote, self, name, r)
              /\ last' = [op |-> "new", obj |-> obj, name |-> name,
                          ctorargs |-> ctorargs, invopts |-> invopts,
                          fail |-> fail, exc |-> r.exc, ret |-> r.ret,
                          pre |-> _attrs]
    /\ UNCHANGED <<self, _attrs, respvars>>

\* obj.get(name)
Get ==
    /\ last = NoOp
    /\ \E name \in NameInputs, fail \in 0..1 :
          \E r \in {get(name, fail)} :
              /\ fail <= Len(r.calls)
              /\ calls' = r.calls
              /\ last' = [op |-> "get", name |-> name, fail |-> fail,
                          exc |-> r.exc, ret |-> r.ret, pre |-> _attrs]
    /\ UNCHANGED <<remote, self, _attrs, respvars>>

\* obj.set(name, expr)
Set ==
    /\ last = NoOp
    /\ \E name \in NameInputs, expr \in {A(1), PyInt(7)}, fail \in 0..1 :
          \E r \in {set(name, expr, fail)} :
              /\ fail <= Len(r.calls)
              /\ calls' = r.calls
              /\ remote' = Assigned(remote, self, name, r)
              /\ last' = [op |-> "set", name |-> name, expr |-> expr,
                          fail |-> fail, exc |-> r.exc, ret |-> r.ret,
                          pre |-> _attrs]
    /\ UNCHANGED <<self, _attrs, respvars>>

InitNames ==
    /\ remote = Remote(0)
    /\ self = JavaScriptObject(str(<<"win">>), <<>>, <<>>)
    /\ _attrs = <<>>
    /\ calls = <<>>
    /\ last = NoOp
    /\ RespIdle

NextNames ==
    \/ New
    \/ Get
    \/ Set
    \/ Discard

SpecNames == InitNames /\ [][NextNames]_vars

(***************************************************************************)
(* Properties.                                                             *)
(***************************************************************************)
\* the last operation is a call of invoke that the executor did not fail
InvokeAnswered == last.op = "invoke" /\ last.exc # WebDriverException

\* the per-call option lcl if the call passed it, the per-instance option
\* glbl otherwise
Effective(lcl, glbl) ==
    IF lcl \in DOMAIN last.invopts THEN last.invopts[lcl] ELSE self[glbl]

\* the last operation is a call of invoke that resolved a function or a
\* property and returned
InvokeResolved ==
    /\ last.op = "invoke"
    /\ last.exc = None
    /\ RemoteType(remote, last.name) # "undefined"

\* the handle that call resolved
ResolvedHandle ==
    IF RemoteType(remote, last.name) = "function"
    THEN wrapfunction(remote, self, last.name, last.execargs, 0).ret
    ELSE wrapproperty(remote, self, last.name, last.execargs, 0).ret

\* the kind of the attribute that call resolved is selected for caching
KindSelected ==
    IF RemoteType(remote, last.name) = "function"
    THEN Effective("iffunc", "cachefuncs")
    ELSE Effective("ifprop", "cacheprops")

\* the last operation is bool(r) on a response r
BoolEvaluated == rlast.op = "bool"

\* C1: evaluating a response in boolean context never raises; it yields False
\* for a response that holds a captured failure and True for one that holds
\* none.
C1_BoolNeverRaises ==
    BoolEvaluated
    => (/\ rlast.exc = None
        /\ rlast.ret = PyBool(~truthy(rlast.on._exc)))

\* the object a failed response captures from its `exception` argument, pre
\* being the number of exception objects when the constructor starts
Captured(exception, pre) ==
    IF exception.tag = "str"
    THEN Exc("JacketException", pre + 1)
    ELSE exception

\* the last operation read an attribute other than __bool__ from a response
\* that holds a captured failure
FailedAccess ==
    /\ rlast.op = "getattribute"
    /\ truthy(rlast.on._exc)
    /\ rlast.input # "__bool__"

\* C2: on a response that holds a captured failure, every attribute access
\* other than __bool__ raises the captured failure itself: the object passed
\* as `exception`, or the one JacketException built from a message at
\* construction; the response keeps that object from one access to the next.
C2_AccessRaisesCapturedFailure ==
    /\ FailedAccess => (rlast.exc = rlast.on._exc /\ resp = rlast.on)
    /\ (/\ rlast.op = "JavaScriptResponse"
        /\ truthy(rlast.exception)
        /\ rlast.exc = None)
       => (/\ resp._exc = Captured(rlast.exception, rlast.pre)
           /\ nexc = IF rlast.exception.tag = "str"
                     THEN rlast.pre + 1
                     ELSE rlast.pre)
    /\ (rlast.op = "JQueryResponse" /\ truthy(rlast.exception))
       => rlast.exc = Captured(rlast.exception, rlast.pre)

C2_Witness ==
    /\ FailedAccess
    /\ rlast.input = "exception"
    /\ rlast.on._exc.type = "JacketException"
    /\ rlast.exc = rlast.on._exc

\* the last operation is a call of S.execute_script, directly or by S.query
\* on a selector, during which the executor raised
ExecutorRaised ==
    /\ rlast.op \in {"execute_script", "query"}
    /\ rlast.calls # <<>>
    /\ rlast.execout.raises

\* C3: when the executor raises during S.execute_script, the call raises
\* nothing and returns a failed JQueryResponse that holds the executor's
\* exception.
C3_ExecutorFailureDeferred ==
    ExecutorRaised
    => (/\ rlast.exc = None
        /\ IsResponse(rlast.ret)
        /\ rlast.ret.cls = "JQueryResponse"
        /\ rlast.ret._exc = Exc("WebDriverException", rlast.pre + 1))

\* C4: invoke(name) with attrargs=None, for a name whose remote typeof is
\* undefined, returns None and raises no exception.
C4_AbsentYieldsNone ==
    (/\ InvokeAnswered
     /\ last.attrargs = None
     /\ RemoteType(remote, last.name) = "undefined")
    => (last.exc = None /\ last.ret = None)

C4_Witness ==
    /\ last.op = "invoke"
    /\ last.attrargs = None
    /\ RemoteType(remote, last.name) = "undefined"
    /\ Len(calls) = 2
    /\ last.exc = None
    /\ last.ret = None

\* C5: invoke(name, attrargs=x) with x not None raises
\* InvalidJavaScriptAttribute whenever the remote value at name is not a
\* function, and the attribute cache is then exactly as it was.
C5_NoFunctionRaises ==
    (/\ InvokeAnswered
     /\ last.attrargs # None
     /\ RemoteType(remote, last.name) # "function")
    => (last.exc = InvalidJavaScriptAttribute /\ _attrs = last.pre)

C5_Witness ==
    /\ last.op = "invoke"
    /\ last.attrargs # None
    /\ RemoteType(remote, last.name) = "number"
    /\ "cacheattr" \in DOMAIN last.invopts
    /\ last.exc = InvalidJavaScriptAttribute
    /\ last.pre # <<>>
    /\ _attrs = last.pre

\* the last operation is obj.name or obj[name] for a name the cache holds a
\* property getter for
CachedPropertyAccess ==
    /\ last.op \in {"getattr", "getitem"}
    /\ last.name \in DOMAIN last.pre
    /\ last.pre[last.name].tag = "handle"
    /\ last.pre[last.name].kind = "property"

\* C6: an access through obj.name or obj[name] to a name cached as a
\* property returns the value the resolving access returned (the property's
\* value) and makes no executor call.
C6_CachedAccessReturnsValue ==
    CachedPropertyAccess
    => LET h == last.pre[last.name]
       IN  /\ last.exc = None
           /\ last.ret = JsResult(Request(h.script, h.args))
           /\ calls = <<>>

\* C7: when invoke runs with caching in effect and the name already has a
\* cached entry, the entry is left unchanged if the effective overwrite flag
\* is False and is replaced by the handle this call resolved if it is True.
C7_OverwriteDecides ==
    (/\ InvokeResolved
     /\ Effective("cacheattr", "cacheattrs")
     /\ last.name \in DOMAIN last.pre)
    => /\ last.name \in DOMAIN _attrs
       /\ IF Effective("overwrite", "overwrite")
          THEN _attrs[last.name] = ResolvedHandle
          ELSE _attrs[last.name] = last.pre[last.name]

\* C8: each per-call option that is passed explicitly decides instead of
\* the per-instance option, which is used only when the per-call option is
\* not given: caching happens iff cacheattr / cacheattrs says so, an
\* existing entry is kept iff overwrite says so, and the resolved handle is
\* stored iff iffunc / cachefuncs (a function) or ifprop / cacheprops (a
\* property) says so.
C8_ExplicitOptionDecides ==
    InvokeResolved
    => /\ ~Effective("cacheattr", "cacheattrs") => _attrs = last.pre
       /\ (Effective("cacheattr", "cacheattrs")
             /\ Effective("overwrite", "overwrite"))
          => /\ last.name \in DOMAIN _attrs
             /\ (_attrs[last.name] = ResolvedHandle) <=> KindSelected
       /\ (Effective("cacheattr", "cacheattrs")
             /\ ~Effective("overwrite", "overwrite")
             /\ last.name \in DOMAIN last.pre)
          => _attrs = last.pre
       /\ (Effective("cacheattr", "cacheattrs")
             /\ ~Effective("overwrite", "overwrite")
             /\ last.name \notin DOMAIN last.pre)
          => (last.name \in DOMAIN _attrs <=> KindSelected)

C8_Witness ==
    /\ InvokeResolved
    /\ ~self.cacheattrs
    /\ self.overwrite
    /\ self.cachefuncs
    /\ DOMAIN last.invopts = {"cacheattr", "overwrite"}
    /\ last.invopts["cacheattr"]
    /\ ~last.invopts["overwrite"]
    /\ last.name \in DOMAIN last.pre
    /\ last.pre[last.name] # ResolvedHandle
    /\ _attrs = last.pre

\* C9: with caching in effect, when the kind of the resolved attribute is
\* not selected (iffunc / cachefuncs for a function, ifprop / cacheprops
\* for a property), the cache entry for the name is neither created nor
\* changed.
C9_UnselectedKindLeavesCache ==
    (/\ InvokeResolved
     /\ Effective("cacheattr", "cacheattrs")
     /\ ~KindSelected)
    => _attrs = last.pre

\* the index k of the text arguments[k]
ArgumentsIndex(tok) == CHOOSE k \in 0..7 : ArgumentsTok(k) = tok

\* the parameter expressions of a script return <def>(<params>), in order
ParamToks(script) ==
    LET open == CHOOSE i \in 1..Len(script) : script[i] = "("
    IN  findargs(SubSeq(script, open + 1, Len(script)))

\* the last operation is a call of a function proxy of arity n >= 1 with n
\* arguments that the executor answered
ProxyCalled ==
    /\ last.op = "call"
    /\ last.handle.kind = "function"
    /\ last.handle.arity >= 1
    /\ Len(last.args) = last.handle.arity
    /\ last.exc = None

\* C10: the proxy of a remote function of arity n >= 1, called with
\* a1..an, makes one executor call in which the i-th parameter expression
\* arguments[k] denotes the position at which a_i is passed.
C10_ParametersDenoteArguments ==
    ProxyCalled
    => /\ Len(calls) = 1
       /\ Len(ParamToks(calls[1].script)) = Len(last.args)
       /\ \A i \in 1..Len(last.args) :
             LET k == ArgumentsIndex(ParamToks(calls[1].script)[i])
             IN  /\ k + 1 <= Len(calls[1].args)
                 /\ calls[1].args[k + 1] = last.args[i]

\* the request asks for the type of an attribute: return typeof(<def>)
IsTypeQuery(req) ==
    /\ Len(req.script) >= 2
    /\ req.script[1] = "return "
    /\ req.script[2] = "typeof("

\* the request asks for the arity of a function: return <def>.length
IsArityQuery(req) ==
    /\ Len(req.script) >= 2
    /\ req.script[1] = "return "
    /\ req.script[Len(req.script)] = ".length"

\* the last operation is invoke(name) without attrargs of a remote function,
\* and it returned
FunctionResolved ==
    /\ last.op = "invoke"
    /\ RemoteType(remote, last.name) = "function"
    /\ last.attrargs = None
    /\ last.exc = None

\* the last operation is a call of a function proxy with as many arguments
\* as the proxy takes
ProxyBodyRan ==
    /\ last.op = "call"
    /\ last.handle.kind = "function"
    /\ Len(last.args) = last.handle.arity

\* C11: invoke(name) of a remote function with attrargs=None makes exactly
\* two executor calls, the type query and then the arity query, and every
\* call of a function proxy makes exactly one executor call.
C11_FunctionRoundTrips ==
    /\ FunctionResolved
       => /\ Len(calls) = 2
          /\ IsTypeQuery(calls[1])
          /\ IsArityQuery(calls[2])
    /\ ProxyBodyRan
       => /\ Len(calls) = 1
          /\ calls[1].script = last.handle.script

C11_Witness ==
    /\ ProxyBodyRan
    /\ last.handle.arity = 2
    /\ last.exc = None
    /\ Len(calls) = 1
    /\ last.handle \in Range(_attrs)

\* the last operation is invoke(name) without attrargs of a plain remote
\* property, and it returned
PropertyResolved ==
    /\ last.op = "invoke"
    /\ RemoteType(remote, last.name) = "number"
    /\ last.attrargs = None
    /\ last.exc = None

\* C12: resolving a plain remote property through invoke issues the type
\* query for the name exactly once, before the request that fetches the
\* property's value.
C12_TypeQueriedOnce ==
    PropertyResolved
    => /\ Cardinality({i \in DOMAIN calls : IsTypeQuery(calls[i])}) = 1
       /\ IsTypeQuery(calls[1])
       /\ ~IsTypeQuery(calls[Len(calls)])

\* the last operation is a call of invoke during which the executor raised
InvokeFailed == last.op = "invoke" /\ last.fail >= 1

\* C17: when the executor raises during a round trip of invoke (the type
\* query, the arity query, the property fetch or the function call made for
\* attrargs), invoke raises that exception, the failed request is the last
\* one it sent, and the attribute cache is as it was before the call.
C17_ExecutorFailureTerminal ==
    InvokeFailed
    => /\ last.exc = WebDriverException
       /\ Len(calls) = last.fail
       /\ _attrs = last.pre

C17_Witness ==
    /\ InvokeFailed
    /\ last.fail = 3
    /\ last.attrargs # None
    /\ last.exc = WebDriverException
    /\ last.pre # <<>>
    /\ _attrs = last.pre
    /\ DOMAIN last.invopts # {}

\* the name, once stripped, is a non-empty identifier
ValidName(name) ==
    /\ name.tag = "str"
    /\ truthy(noneoremptystr(name))
    /\ isidentifier(noneoremptystr(name))

\* the last operation is new, get or set with a name that is empty or is not
\* an identifier
InvalidNameGiven ==
    /\ last.op \in {"new", "get", "set"}
    /\ ~ValidName(last.name)

\* C14: new, get and set reject a name that is empty or is not a valid
\* identifier, new with InvalidJavaScriptAttribute and get / set with
\* JacketException, before any executor call is made.
C14_InvalidNameRejected ==
    InvalidNameGiven
    => /\ calls = <<>>
       /\ last.exc = IF last.op = "new"
                     THEN InvalidJavaScriptAttribute
                     ELSE JacketException

\* the last operation is S.query(jquery)
Queried == rlast.op = "query"

\* the successful JQueryResponse made from raw, keeping executor jsexec
ResponseOf(raw, jsexec) ==
    [cls |-> "JQueryResponse", _raw |-> raw, _exc |-> None,
     _jsexec |-> jsexec]
    @@ JavaScriptObject(str(<<"$(", "arguments[0]", ")">>), <<raw>>,
                        [strobj |-> FALSE])

\* C18: S.query dispatches on its argument: a non-blank selector string
\* causes exactly one executor call of `return $(arguments[0])` with the
\* stripped selector as its argument; a single Element yields a JQueryElement
\* wrapping that element with no executor call; a collection of elements
\* yields a JQueryResponse built from it; a blank or empty string yields None
\* with no executor call.
C18_QueryDispatch ==
    Queried
    => IF rlast.input.tag = "str"
       THEN IF strip(rlast.input.toks) # <<>>
            THEN rlast.calls =
                   <<Request(<<"return ", "$(", "arguments[0]", ")">>,
                             <<str(strip(rlast.input.toks))>>)>>
            ELSE /\ rlast.calls = <<>>
                 /\ rlast.exc = None
                 /\ rlast.ret = None
       ELSE IF rlast.input.tag = "element"
       THEN /\ rlast.calls = <<>>
            /\ rlast.exc = None
            /\ rlast.ret = JQueryElement(rlast.input)
       ELSE (rlast.input.tag = "list" /\ AllElements(rlast.input))
            => /\ rlast.calls = <<>>
               /\ rlast.exc = None
               /\ rlast.ret =
                     ResponseOf(rlast.input,
                                IF rlast.input.items = <<>> THEN None
                                ELSE Parent(rlast.input.items[1]))

C18_Witness ==
    /\ Queried
    /\ rlast.input = str(<<" ", "div", " ">>)
    /\ rlast.calls = <<Request(<<"return ", "$(", "arguments[0]", ")">>,
                               <<str(<<"div">>)>>)>>
    /\ rlast.exc = None
    /\ rlast.ret = ResponseOf(PyList(<<Element("e1"), Element("e2")>>),
                              SExecutor)

\* the last operation is S.execute_script and the executor answered it
ScriptAnswered ==
    /\ rlast.op = "execute_script"
    /\ ~rlast.execout.raises

\* C19: S.execute_script returns a JQueryElement when the executor's result
\* is an Element, a JQueryResponse when it is a list of Elements, and the
\* executor's result itself otherwise (an empty list and a list that is not
\* a list of Elements included); it raises in none of these cases.
C19_ExecuteScriptWraps ==
    ScriptAnswered
    => /\ rlast.exc = None
       /\ rlast.ret =
             IF rlast.execout.res.tag = "element"
             THEN JQueryElement(rlast.execout.res)
             ELSE IF /\ rlast.execout.res.tag = "list"
                     /\ rlast.execout.res.items # <<>>
                     /\ AllElements(rlast.execout.res)
             THEN ResponseOf(rlast.execout.res, SExecutor)
             ELSE rlast.execout.res

\* the form of raw_response that `response` is documented to hold
Wrapped(raw) ==
    IF raw.tag = "element"
    THEN JQueryElement(raw)
    ELSE PyList([i \in DOMAIN raw.items |-> JQueryElement(raw.items[i])])

\* the last operation read attribute `item` of a successfully constructed
\* JQueryResponse
ReadOfSuccessful(item) ==
    /\ rlast.op = "getattribute"
    /\ rlast.input = item
    /\ rlast.on.cls = "JQueryResponse"
    /\ ~truthy(rlast.on._exc)

\* C20: for a successfully constructed JQueryResponse, raw_response is the
\* object passed at construction and response is its wrapped form (a
\* JQueryElement for a single Element, a list of JQueryElement for a
\* collection of Elements); reading response makes no executor call.
C20_ResponseIsWrappedForm ==
    /\ ReadOfSuccessful("raw_response")
       => /\ rlast.exc = None
          /\ rlast.ret = rlast.on._raw
          /\ rlast.calls = <<>>
    /\ ReadOfSuccessful("response")
       => /\ rlast.exc = None
          /\ rlast.ret = Wrapped(rlast.on._raw)
          /\ rlast.calls = <<>>

\* every name the cache holds before a step is contained in the object
\* after it
NamesKept == \A n \in DOMAIN _attrs : __contains__(_attrs', n)

\* no name the cache holds before a step is contained in the object after
\* it
NamesDropped == \A n \in DOMAIN _attrs : ~__contains__(_attrs', n)

\* C16: the attribute cache loses entries only through clearcache: every
\* step of invoke, populate, populateall, wrap, an attribute or item access
\* or a proxy call keeps every name that was in the cache, and right after
\* clearcache the cache is empty.
C16_CacheLosesOnlyOnClear ==
    /\ [][IF last'.op = "clearcache" THEN NamesDropped ELSE NamesKept]_vars
    /\ [](last.op = "clearcache" => _attrs = <<>>)

C16_Witness ==
    /\ last.op = "populate"
    /\ last.invopts = [iffunc |-> FALSE, ifprop |-> FALSE]
    /\ last.exc = None
    /\ \E n \in DOMAIN last.pre :
          /\ last.pre[n] # None
          /\ __contains__(_attrs, n)
          /\ _attrs[n] = None

\* sub occurs in seq as a run of consecutive items
HasSub(seq, sub) ==
    \E i \in 1..(Len(seq) - Len(sub) + 1) :
        SubSeq(seq, i, i + Len(sub) - 1) = sub

\* the wrapped object is the first executor argument of the request
ObjectPassed(req) == Len(req.args) >= 1 /\ req.args[1] = self._obj

\* the wrapped object's text is substituted into the script of the request
Substituted(req) ==
    self._obj.tag = "str" /\ HasSub(req.script, self._obj.toks)

\* the request references the object positionally
Positional(req) ==
    /\ ObjectPassed(req)
    /\ HasSub(req.script, <<"arguments[0]">>)
    /\ ~Substituted(req)

\* the request references the object textually by name
ByName(req) == Substituted(req) /\ ~ObjectPassed(req)

\* the request references no object: the attribute names stand bare in the
\* global scope
Bare(req) == ~ObjectPassed(req) /\ ~Substituted(req)

InMode(mode, req) ==
    CASE mode = "positional" -> Positional(req)
      [] mode = "name" -> ByName(req)
      [] mode = "global" -> Bare(req)

\* the instance the constructor makes from the input o = (obj, execargs,
\* strobj)
Constructed(o) == JavaScriptObject(o[1], o[2], [strobj |-> o[3]])

\* the way of referencing by the two-way rule: a non-string or strobj=True
\* is passed, a string with strobj=False is a name
StatedMode(o) ==
    IF o[1].tag # "str" \/ o[3] THEN "positional" ELSE "name"

\* the string is written in quotes
Quoted(obj) == enclosedby(obj, str(<<"\"">>)) \/ enclosedby(obj, str(<<"'">>))

\* the way of referencing by the constructor's rule: None and, with strobj
\* False, a blank
\* string wrap the global scope, and a quoted string given with strobj False
\* is unquoted and passed
FixedMode(o) ==
    IF o[1] = None
    THEN "global"
    ELSE IF o[1].tag # "str" \/ o[3] \/ Quoted(o[1])
    THEN "positional"
    ELSE IF strip(o[1].toks) = <<>>
    THEN "global"
    ELSE "name"

\* the operations the rule is stated for: invoke, populate, wrap, clearcache
\* and attribute / item access
ReferencingOps ==
    {"invoke", "populate", "wrap", "clearcache", "getattr", "getitem"}

\* C15: every request of a JavaScriptObject references its object
\* either positionally (the script names arguments[0] and the object is the
\* first executor argument) or by name (the name is substituted and the
\* object is not passed), never both; the constructor fixes which (non-string
\* or strobj=True: positional; string with strobj=False: by name), and
\* invoke, populate, wrap, clearcache and attribute access do not change it.
C15_ReferenceModeAsStated ==
    /\ \E o \in ObjInputs : self = Constructed(o)
    /\ \A o \in ObjInputs :
          (self = Constructed(o) /\ last.op \in ReferencingOps)
          => \A i \in DOMAIN calls : InMode(StatedMode(o), calls[i])

\* C15, with the global scope and quoted strings accounted for: every
\* request references the object in exactly one of three ways,
\* positionally, by name, or not at all (the global scope); the
\* constructor fixes which (None, or a blank string with strobj=False:
\* global; any other non-string, strobj=True, or a quoted string, which is
\* unquoted: positional; any other string with strobj=False: by name), and
\* invoke, populate, wrap, clearcache and attribute access do not change it.
C15_ReferenceModeFixed ==
    /\ \E o \in ObjInputs : self = Constructed(o)
    /\ \A o \in ObjInputs :
          (self = Constructed(o) /\ last.op \in ReferencingOps)
          => \A i \in DOMAIN calls : InMode(FixedMode(o), calls[i])

C15_Witness ==
    /\ self = Constructed(<<str(<<"'", "lit", "'">>), <<>>, FALSE>>)
    /\ last.op = "populate"
    /\ last.exc = None
    /\ last.pre # <<>>
    /\ Len(calls) = 6
    /\ \A i \in DOMAIN calls :
          Positional(calls[i]) /\ calls[i].args[1] = str(<<"lit">>)

\* the last operation is a call of tryinvoke
TryInvoked == last.op = "tryinvoke"

\* what invoke does when called as that call of tryinvoke was
SameInvoke ==
    invoke(remote, self, last.pre, last.name, last.execargs, last.attrargs,
           last.invopts, last.fail)

\* C21: tryinvoke returns what invoke returns for the same name, attrargs
\* and options whenever invoke does not raise InvalidJavaScriptAttribute,
\* and returns None without raising when invoke raises it; every other
\* exception, the executor's included, propagates.
C21_TryInvokeSwallowsInvalidOnly ==
    TryInvoked
    => /\ calls = SameInvoke.calls
       /\ _attrs = SameInvoke.attrs
       /\ IF SameInvoke.exc = InvalidJavaScriptAttribute
          THEN last.exc = None /\ last.ret = None
          ELSE last.exc = SameInvoke.exc /\ last.ret = SameInvoke.ret

C21_Witness ==
    /\ TryInvoked
    /\ SameInvoke.exc = InvalidJavaScriptAttribute
    /\ RemoteType(remote, last.name) = "number"
    /\ calls # <<>>
    /\ last.exc = None
    /\ last.ret = None

\* the object was built with default options
DefaultBuilt == self = JavaScriptObject(Object("elem"), <<>>, <<>>)

\* the last operation is an attribute access, an item access or a call of
\* invoke that does not pass cacheattr=True, made on an empty cache
UncachedAccess ==
    /\ last.op \in {"invoke", "getattr", "getitem"}
    /\ ~("cacheattr" \in DOMAIN last.invopts /\ last.invopts["cacheattr"])
    /\ last.pre = <<>>

\* C22: on an object built with default options (cacheattrs False), an
\* attribute access, item access or call of invoke that does not pass
\* cacheattr=True leaves the empty cache empty, whatever its other options,
\* and is resolved by asking the executor.
C22_DefaultNeverCaches ==
    (DefaultBuilt /\ UncachedAccess)
    => /\ _attrs = <<>>
       /\ calls # <<>>

C22_Witness ==
    /\ DefaultBuilt
    /\ UncachedAccess
    /\ last.op = "invoke"
    /\ DOMAIN last.invopts = {"iffunc", "ifprop", "overwrite"}
    /\ last.invopts["overwrite"]
    /\ last.exc = None
    /\ last.ret # None
    /\ _attrs = <<>>

\* the last operation is obj.name or obj[name], answered from the cache, for
\* a name the remote object has
CachedExistingRead ==
    /\ last.op \in {"getattr", "getitem"}
    /\ last.name \in DOMAIN last.pre
    /\ RemoteType(remote, last.name) # "undefined"

\* C23: every entry of the attribute cache is a resolved handle (a function
\* proxy or a property getter), never None, so obj.name / obj[name] for a
\* cached name that exists remotely never returns None.
C23_CacheHoldsHandles ==
    /\ \A n \in DOMAIN _attrs : _attrs[n].tag = "handle"
    /\ CachedExistingRead => last.ret # None

\* the last operation is a populate or a populateall that returned
PopulateReturned ==
    /\ last.op \in {"populate", "populateall"}
    /\ last.exc = None

\* name n is of a kind the flags of the last operation select: a function
\* under iffunc, any other existing attribute under ifprop
SelectedKind(n) ==
    \/ /\ dictget(last.invopts, "iffunc", TRUE)
       /\ RemoteType(remote, n) = "function"
    \/ /\ dictget(last.invopts, "ifprop", TRUE)
       /\ RemoteType(remote, n) \notin {"function", "undefined"}

\* C24: populate and populateall treat iffunc / ifprop alike: after either
\* returns, every name it enumerated that is of a kind the flags select has
\* its resolved handle in the cache.
C24_PopulateCachesSelected ==
    PopulateReturned =>
        \A n \in DOMAIN last.ret.items :
            SelectedKind(n) =>
                /\ __contains__(_attrs, n)
                /\ _attrs[n].tag = "handle"

\* the names, in remote order, that a listing is to return: own names only
\* for the plain listings, the whole prototype chain for the all* ones
Candidates(op) ==
    IF op \in {"attributes", "functions", "properties"}
    THEN OwnNames(remote) ELSE AllNames

IsFunction(n) == remote[n].type = "function"

ExpectedListing(op) ==
    IF op \in {"functions", "allfunctions"}
    THEN SelectSeq(Candidates(op), IsFunction)
    ELSE IF op \in {"properties", "allproperties"}
    THEN SelectSeq(Candidates(op), LAMBDA n : ~IsFunction(n))
    ELSE Candidates(op)

ListingOps ==
    {"attributes", "functions", "properties",
     "allattributes", "allfunctions", "allproperties"}

\* the last operation is a listing that returned
ListingReturned == last.op \in ListingOps /\ last.exc = None

\* the names the listing op answers with on this object: the answer of the
\* last operation when that was op, and else what op answers when called
\* with the same executor arguments
Listed(op) ==
    IF op = last.op THEN Range(last.ret.items)
    ELSE Range((CASE op = "attributes" ->
                       attributes(remote, self, last.execargs, 0)
                  [] op = "functions" ->
                       functions(remote, self, last.execargs, 0)
                  [] op = "properties" ->
                       properties(remote, self, last.execargs, 0)
                  [] op = "allattributes" ->
                       allattributes(remote, self, last.execargs, 0)
                  [] op = "allfunctions" ->
                       allfunctions(remote, self, last.execargs, 0)
                  [] op = "allproperties" ->
                       allproperties(remote, self, last.execargs, 0)).ret.items)

\* the listings of functions and of properties are disjoint and together
\* are the listing of attributes
Partition(funcs, props, attrs) ==
    /\ Listed(funcs) \cap Listed(props) = {}
    /\ Listed(funcs) \cup Listed(props) = Listed(attrs)

\* C25: properties() returns exactly the own names whose remote value is
\* not a function, functions() exactly those whose value is a function, and
\* attributes() all own names, so that the first two are disjoint and their
\* union is the third; allproperties() / allfunctions() / allattributes()
\* do the same over the prototype chain.
C25_ListingsPartition ==
    ListingReturned
    => /\ last.ret.items = ExpectedListing(last.op)
       /\ IF last.op \in {"attributes", "functions", "properties"}
          THEN Partition("functions", "properties", "attributes")
          ELSE Partition("allfunctions", "allproperties", "allattributes")

C25_Witness ==
    /\ last.op = "properties"
    /\ last.exc = None
    /\ Len(calls) = 1
    /\ last.ret.items = <<"p">>
    /\ Listed("functions") = {"f"}
    /\ Listed("attributes") = {"f", "p"}

\* the script of the click has stopped on the remote side
ScriptOver == js.status \in {"returned", "threw"}

\* statement i of the running script is not behind a return statement
Reached(i) == \A k \in 1..(i - 1) : ~IsReturn(js.stmts[k])

\* C26: click makes one executor call whose script scrolls the wrapped
\* element into view and then clicks it: no statement of the script is
\* behind a return and, when the script has stopped, the DOM methods that
\* ran are scrollIntoView and then click, both on the wrapped element.
C26_ClickScrollsThenClicks ==
    /\ last.op = "click" => Len(calls) = 1
    /\ \A i \in DOMAIN js.stmts : Reached(i)
    /\ ScriptOver =>
          js.log = <<[method |-> ".scrollIntoView()", on |-> self._element],
                     [method |-> ".click()", on |-> self._element]>>

\* the last operation is the construction of a factory
FactoryAsked == last.op = "JavaScriptObjectFactory"

\* C27: a JavaScriptObjectFactory can be constructed with an executor and
\* global options: the construction raises nothing and the factory holds,
\* for every global option, the value given or else the default, which
\* init / new hand to the objects they make.
C27_FactoryConstructs ==
    FactoryAsked =>
        /\ last.exc = None
        /\ self # None
        /\ self.cls = "JavaScriptObjectFactory"
        /\ \A k \in GlobalOptNames :
              self[k] = dictget(last.invopts, k,
                                _configureglobalopts(<<>>)[k])


====
